---- MODULE Spec2Model ----
(***************************************************************************)
(* Real-time resource synchronisation of the gardener dashboard:           *)
(*   - the socket.io subscription router of the backend (lib/io.js),       *)
(*   - the shoots watch dispatcher of the backend (lib/watches/shoots.js), *)
(*   - the socket plugin of the frontend store,                            *)
(*   - the shoots list-state engine of the frontend store, in its two      *)
(*     revisions: the event queue with a throttled processing pass         *)
(*     (store/modules/shoots.js) and the batch handler                     *)
(*     (store/modules/shoots/actions.js, mutations.js).                    *)
(***************************************************************************)
EXTENDS Integers, Sequences, FiniteSets, TLC

VARIABLES
  user,        \* backend: socket.client.user of the one connected socket
  rooms,       \* backend: Object.keys(socket.rooms)
  reqs,        \* backend: the 'subscribe'/'unsubscribe' handler invocations
  shootsWithIssues, \* backend: the uids the shoots watch tracks as having an issue
  dispatched,  \* backend: history of the watch events handled and what each emitted
  wire,        \* the packets the router has sent to the socket, and what the client did on each
  rootNamespace,  \* frontend: rootState.namespace
  onlyShootsWithIssues, \* frontend: rootState.onlyShootsWithIssues
  subscription,   \* frontend: state.subscription of the shoots module
  flows,       \* frontend: the socket plugin's subscribeTopic/unsubscribeTopic calls
  calls,       \* frontend: the socket plugin's emit calls and their promises
  connected,   \* frontend: socket.connected
  sendBuffer,  \* frontend: the flows whose packet waits in the socket for a connection
  shoots,      \* frontend: state.shoots, the objects in the order of their keys
  sortedShoots,   \* frontend: state.sortedShoots
  filteredShoots, \* frontend: state.filteredShoots
  sortRequired,   \* frontend: state.sortRequired
  searchValue, \* frontend: state.searchValue, the tokens of the search text
  shootListFilters, \* frontend: state.shootListFilters
  sortParams,  \* frontend: state.sortParams
  events,      \* frontend: state.events, the queue of the throttled pass
  now,         \* frontend: the clock, in milliseconds
  throttle,    \* frontend: the timer state of throttledProcessEvents
  lastType,    \* history: the type of the last event handed over, per key
  burst,       \* history: when events were handed over, and for which keys
  passes,      \* history: the processEvents passes, when, and whether they re-sorted
  lastPass,    \* history: what the last pass over events met and what it did
  cleared,     \* history: CLEAR_ALL has run; nothing was loaded or handed over since
  ticketsAll,  \* frontend: state.all of the tickets module
  commentsAll, \* frontend: state.all of the comments module, per ticket number
  topicSubscription, \* frontend: state.subscription of the tickets and of the comments module
  handled      \* history: the parity of the number of events and batches the two modules were handed

routerVars == <<user, rooms, reqs>>
dispatcherVars == <<shootsWithIssues, dispatched, wire>>
rootVars == <<rootNamespace, onlyShootsWithIssues>>
socketVars == <<connected, sendBuffer>>
clientVars == <<subscription, flows, calls, socketVars>>
viewVars == <<searchValue, shootListFilters>>
listVars == <<shoots, sortedShoots, filteredShoots, sortRequired, sortParams, viewVars>>
queueVars == <<events, now, throttle>>
historyVars == <<lastType, burst, passes, lastPass, cleared>>
issueVars == <<ticketsAll, commentsAll, topicSubscription, handled>>
engineVars == <<rootVars, clientVars, listVars, queueVars, historyVars, issueVars>>
vars == <<routerVars, dispatcherVars, engineVars>>

\* A value that is absent: undefined, null, or a missing query parameter.
Null == ""

(***************************************************************************)
(* Bounds                                                                  *)
(***************************************************************************)
\* Number of subscribe/unsubscribe requests one socket issues.
MaxRequests == 2

\* Number of watch events the dispatcher handles.
MaxDispatch == 3

\* Number of subscribeTopic and unsubscribeTopic calls of the socket plugin.
MaxFlows == 3

\* Number of shoots of a loaded list.
MaxList == 3

\* Number of emit calls of the socket plugin.
MaxCalls == 2

\* The last instant of the clock of the emit calls, in milliseconds.
MaxWait == 20000

\* Number of shoot events handed to the list-state engine.
MaxEvents == 3

\* The last instant of the clock, in milliseconds.
MaxTime == 6000

\* Number of events in a batch handed to handleEvents.
MaxBatch == 2

\* The latest metadata.updated_at of a ticket or of a comment.
MaxStamp == 2

(***************************************************************************)
(* Backend fixtures (test/acceptance/io.spec.js)                           *)
(***************************************************************************)
SocketId == "socket-id"

AdminUser == [id |-> "admin@example.org", isAdmin |-> TRUE]
FooUser == [id |-> "foo@example.org", isAdmin |-> FALSE]
Users == {AdminUser, FooUser}

\* projectList: metadata.name, spec.namespace and the User members.
projectList ==
  { [name |-> "foo", namespace |-> "foo", members |-> {"foo@example.org"}],
    [name |-> "bar", namespace |-> "bar", members |-> {"bar@example.org"}],
    [name |-> "baz", namespace |-> "baz",
     members |-> {"foo@example.org", "bar@example.org", "baz@example.org"}] }

Namespaces == {p.namespace : p \in projectList}
\* A namespace no project of the cache has.
UnknownNamespace == "qux"
ClusterNames == {"foo"}
Topics == {"shoots", "tickets", "comments"}

(***************************************************************************)
(* Backend: subscription router                                            *)
(***************************************************************************)
\* Namespaces and cluster names are DNS-1123 labels: only unreserved
\* characters, which encodeURIComponent leaves as they are.
encodeURIComponent(s) == s

\* RegExp /^<prefix>/ .test(room)
StartsWith(room, prefix) ==
  /\ Len(room) >= Len(prefix)
  /\ SubSeq(room, 1, Len(prefix)) = prefix

\* What cache.findProjectByNamespace returns for a namespace of no project.
NoProject == [name |-> Null, namespace |-> Null, members |-> {}]

\* cache.findProjectByNamespace: the project or undefined
findProjectByNamespace(namespace) ==
  IF \E p \in projectList : p.namespace = namespace
  THEN CHOOSE p \in projectList : p.namespace = namespace
  ELSE NoProject

isMemberOfNamespace_NoCheck(u, namespace) == TRUE

isMemberOfNamespace(u, namespace) ==
  IF u.isAdmin THEN TRUE
  ELSE LET project == findProjectByNamespace(namespace)
       IN  u.id \in project.members

\* leaveRooms without the test of the pattern.
leaveRooms_AnyTopic(socketRooms, prefix) ==
  {room \in socketRooms : room # SocketId}

\* The rooms leaveRooms(socket, pattern) calls socket.leave for.
leaveRooms(socketRooms, prefix) ==
  {room \in socketRooms : room # SocketId /\ StartsWith(room, prefix)}

unsubscribeShoots(socketRooms) == leaveRooms(socketRooms, "subs://shoots")
unsubscribeTickets(socketRooms) == leaveRooms(socketRooms, "subs://tickets")
unsubscribeComments(socketRooms) == leaveRooms(socketRooms, "subs://comments")

unsubscribeTopicRooms(topic, socketRooms) ==
  CASE topic = "shoots" -> unsubscribeShoots(socketRooms)
    [] topic = "tickets" -> unsubscribeTickets(socketRooms)
    [] topic = "comments" -> unsubscribeComments(socketRooms)

\* The outcome of the part of a subscribe that follows the awaited leave:
\* [error |-> message kind or Null, room |-> the room handed to joinRoom].
Thrown(kind) == [error |-> kind, room |-> Null]
Joins(room) == [error |-> Null, room |-> room]

subscribeShoots(u, namespace, name) ==
  IF ~isMemberOfNamespace(u, namespace)
  THEN Thrown("Forbidden")
  ELSE Joins("subs://shoots" \o "/namespace/" \o encodeURIComponent(namespace)
             \o (IF name # Null
                 THEN "/cluster/" \o encodeURIComponent(name)
                 ELSE "/all-clusters"))

subscribeShootsAllNamespaces(u, unhealthy) ==
  IF ~u.isAdmin
  THEN Thrown("Forbidden")
  ELSE Joins("subs://shoots" \o "/all-namespaces"
             \o (IF unhealthy THEN "/unhealthy-clusters" ELSE "/all-clusters"))

subscribeTickets == Joins("subs://tickets")

subscribeComments(namespace, name) ==
  LET project == findProjectByNamespace(namespace)
  IN  IF project = NoProject
      THEN Thrown("TypeError")   \* project.metadata of undefined
      ELSE Joins("subs://comments" \o "/project/" \o encodeURIComponent(project.name)
                 \o "/cluster/" \o encodeURIComponent(name))

\* subscribe(socket, subscription) after `await unsubscribe<Topic>(socket)`
subscribe(u, r) ==
  CASE r.topic = "shoots" ->
         IF r.namespace = Null
         THEN subscribeShootsAllNamespaces(u, r.unhealthy = "true")
         ELSE subscribeShoots(u, r.namespace, r.name)
    [] r.topic = "tickets" -> subscribeTickets
    [] r.topic = "comments" -> subscribeComments(r.namespace, r.name)

\* The filter of a subscription: the query string's namespace, name and
\* unhealthy parameters (Null when absent).
Filter(namespace, name, unhealthy) ==
  [namespace |-> namespace, name |-> name, unhealthy |-> unhealthy]

\* The {topic, filter} subscriptions the clients ask for.
Subscriptions ==
  { [topic |-> "shoots", filter |-> Filter("foo", Null, Null)],
    [topic |-> "shoots", filter |-> Filter("bar", Null, Null)],
    [topic |-> "shoots", filter |-> Filter("baz", "foo", Null)],
    [topic |-> "shoots", filter |-> Filter(Null, Null, Null)],
    [topic |-> "shoots", filter |-> Filter(Null, Null, "true")],
    [topic |-> "tickets", filter |-> Filter(Null, Null, Null)],
    [topic |-> "comments", filter |-> Filter("bar", "foo", Null)],
    [topic |-> "comments", filter |-> Filter(UnknownNamespace, "foo", Null)] }

\* All earlier handler invocations have called back, or their socket is
\* gone.
AllAcked == \A i \in 1..Len(reqs) : reqs[i].pc \in {"acked", "dropped"}

NewRequest(op, topic, f) ==
  [op |-> op, topic |-> topic,
   namespace |-> f.namespace, name |-> f.name, unhealthy |-> f.unhealthy,
   pc |-> "leaving",
   leaving |-> unsubscribeTopicRooms(topic, rooms),
   joining |-> Null,
   error |-> Null,
   before |-> rooms,        \* history: the rooms when the request arrived
   solo |-> AllAcked]       \* history: no other request was in flight then

\* socket.on('subscribe') and socket.on('unsubscribe'): the handler up to
\* `await unsubscribe<Topic>`: leaveRooms has called socket.leave for the
\* topic's rooms.
Arrive(op, topic, f) ==
  /\ Len(reqs) < MaxRequests
  /\ reqs' = Append(reqs, NewRequest(op, topic, f))
  /\ UNCHANGED <<user, rooms>>

\* A 'subscribe' message of some client of the router.
OnSubscribe(topic, f) ==
  /\ Arrive("subscribe", topic, f)
  /\ UNCHANGED <<dispatcherVars, engineVars>>

\* socket.on('unsubscribe'): the handler up to the awaited leave.
OnUnsubscribe(topic) ==
  /\ Arrive("unsubscribe", topic, Filter(Null, Null, Null))
  /\ UNCHANGED <<dispatcherVars, engineVars>>

\* leaveRoom: the callback of socket.leave(room, cb) deletes socket.rooms[room].
LeaveDone(i, room) ==
  /\ reqs[i].pc = "leaving"
  /\ room \in reqs[i].leaving
  /\ rooms' = rooms \ {room}
  /\ reqs' = [reqs EXCEPT ![i].leaving = @ \ {room}]
  /\ UNCHANGED user
  /\ UNCHANGED <<dispatcherVars, engineVars>>

\* Promise.all(leaveRoomPromises) has resolved: the handler continues. A
\* subscribe checks the authorization and calls socket.join, which calls back
\* at once for a room the socket is in; an unsubscribe calls back.
Resume(i) ==
  /\ reqs[i].pc = "leaving"
  /\ reqs[i].leaving = {}
  /\ LET out == IF reqs[i].op = "subscribe" THEN subscribe(user, reqs[i])
                ELSE Joins(Null)
     IN  reqs' = [reqs EXCEPT ![i] =
                    IF out.error # Null
                    THEN [@ EXCEPT !.pc = "acked", !.error = out.error]
                    ELSE IF out.room = Null \/ out.room \in rooms
                    THEN [@ EXCEPT !.pc = "acked"]
                    ELSE [@ EXCEPT !.pc = "joining", !.joining = out.room]]
  /\ UNCHANGED <<user, rooms>>
  /\ UNCHANGED <<dispatcherVars, engineVars>>

\* joinRoom: the callback of socket.join(room, cb) sets socket.rooms[room];
\* the handler then calls back with the response.
JoinDone(i) ==
  /\ reqs[i].pc = "joining"
  /\ rooms' = rooms \cup {reqs[i].joining}
  /\ reqs' = [reqs EXCEPT ![i].pc = "acked"]
  /\ UNCHANGED user
  /\ UNCHANGED <<dispatcherVars, engineVars>>

\* The rooms of the subscriptions of a socket, one of each topic.
JoinedRooms ==
  { "subs://shoots/namespace/foo/all-clusters",
    "subs://tickets",
    "subs://comments/project/bar/cluster/foo" }

\* A socket after its connection, in its own-id room, or after
\* subscriptions that have been answered, in their rooms too.
InitRouter ==
  /\ user \in Users
  /\ rooms \in {{SocketId} \cup joined : joined \in SUBSET JoinedRooms}
  /\ reqs = <<>>

NextRouter ==
  \/ \E s \in Subscriptions : OnSubscribe(s.topic, s.filter)
  \/ \E topic \in Topics : OnUnsubscribe(topic)
  \/ \E i \in 1..Len(reqs) : \E room \in reqs[i].leaving : LeaveDone(i, room)
  \/ \E i \in 1..Len(reqs) : Resume(i)
  \/ \E i \in 1..Len(reqs) : JoinDone(i)

(***************************************************************************)
(* Shoot objects and watch events                                          *)
(***************************************************************************)
EventTypes == {"ADDED", "MODIFIED", "DELETED"}

\* metadata.uid is fixed for the life of the object namespace/name.
Uid(namespace, name) == "uid-" \o namespace \o "-" \o name

\* status.lastOperation of a shoot that has none: no state, no progress.
NoOperation == [state |-> Null, progress |-> 0]

\* A shoot resource: metadata.{uid, namespace, name, resourceVersion},
\* spec.purpose, and `issue`, what its status makes of the health predicate.
\* The other properties the list view reads are those of an idle shoot on
\* aws: status.lastOperation, the codes of status.lastErrors and of
\* status.conditions, the marks that
\* utils reads from the metadata (reconciliation deactivated, progressing)
\* and from the status (hibernated), spec.provider.type, spec.region,
\* spec.seedName, spec.kubernetes.version, the created-by annotation,
\* metadata.creationTimestamp, the label names of each ticket of the shoot
\* in the tickets store, and metadata.updated_at of the first of these
\* tickets (Null for undefined, when the shoot has no ticket).
ShootWith(namespace, name, resourceVersion, issue, purpose) ==
  [uid |-> Uid(namespace, name), namespace |-> namespace, name |-> name,
   resourceVersion |-> resourceVersion, issue |-> issue, purpose |-> purpose,
   lastOperation |-> NoOperation, lastErrors |-> <<>>, conditions |-> <<>>,
   ignore |-> FALSE, progressing |-> FALSE, hibernated |-> FALSE,
   providerType |-> "aws", region |-> "eu-1", seedName |-> "seed-1",
   k8sVersion |-> "1.18.2", createdBy |-> "admin@example.org",
   creationTimestamp |-> "2020-01-01T00:00:00Z", tickets |-> <<>>,
   latestUpdatedTicket |-> Null]

\* A condition of status.conditions: its status, its lastTransitionTime (an
\* ISO 8601 time in UTC, which compares as the time it stands for: here the
\* number of the time, from 1) and its error code, Null for none.
Condition(status, lastTransitionTime, code) ==
  [status |-> status, lastTransitionTime |-> lastTransitionTime, code |-> code]

\* The error codes of the conditions.
ConditionCodes(conditions) ==
  SelectSeq([i \in 1..Len(conditions) |-> conditions[i].code],
            LAMBDA code : code # Null)

\* A shoot without spec.purpose.
Shoot(namespace, name, resourceVersion, issue) ==
  ShootWith(namespace, name, resourceVersion, issue, Null)

Event(type, object) == [type |-> type, object |-> object]

\* utils.shootHasIssue(object): the health predicate over the object's status
shootHasIssue(object) == object.issue

(***************************************************************************)
(* Backend: shoots watch dispatcher                                        *)
(***************************************************************************)
\* io.to(room)...emit(channel, event): one delivery per room
Emit(roomSet, channel, event) ==
  {[room |-> room, channel |-> channel, event |-> event] : room \in roomSet}

\* The rooms of an object without the room of all namespaces.
ShootRooms_OwnNamespace(object) ==
  LET namespace == encodeURIComponent(object.namespace)
      name == encodeURIComponent(object.name)
  IN  { "subs://shoots/namespace/" \o namespace \o "/cluster/" \o name,
        "subs://shoots/namespace/" \o namespace \o "/all-clusters" }

\* The rooms every shoot event is emitted to.
ShootRooms(object) ==
  LET namespace == encodeURIComponent(object.namespace)
      name == encodeURIComponent(object.name)
  IN  { "subs://shoots/namespace/" \o namespace \o "/cluster/" \o name,
        "subs://shoots/namespace/" \o namespace \o "/all-clusters",
        "subs://shoots/all-namespaces/all-clusters" }

\* The rooms an event of an object with an issue is emitted to as well.
IssueRooms(object) ==
  LET namespace == encodeURIComponent(object.namespace)
  IN  { "subs://shoot/namespace/" \o namespace \o "/unhealthy-clusters",
        "subs://shoot/all-namespaces/unhealthy-clusters" }

\* The rooms the synthetic DELETED event of an object that has no issue any
\* more is emitted to.
ResolvedRooms(object) ==
  LET namespace == encodeURIComponent(object.namespace)
  IN  { "subs://shoot/namespace/" \o namespace \o "/unhealthy",
        "subs://shoot/all-namespaces/unhealthy" }

\* Everything the handler emits for an event, given the tracked uids.
Emissions(event, tracked) ==
  Emit(ShootRooms(event.object), "shoots", event)
  \cup (IF shootHasIssue(event.object)
        THEN Emit(IssueRooms(event.object), "shoots", event)
        ELSE IF event.object.uid \in tracked
        THEN Emit(ResolvedRooms(event.object), "shoots",
                  Event("DELETED", event.object))
        ELSE {})

\* shootsWithIssues after the handler has run.
TrackIssues(event, tracked) ==
  LET uid == event.object.uid
  IN  IF shootHasIssue(event.object)
      THEN IF uid \notin tracked THEN tracked \cup {uid}
           ELSE IF event.type = "DELETED" THEN tracked \ {uid}
           ELSE tracked
      ELSE tracked \ {uid}

\* The handler registered on the shoots watch, for one event. (It also hands
\* the object to the terminal bootstrapper and deletes the tickets of a
\* deleted shoot: services outside this model.)
\* The packets of the emits of an event for a socket: io.to(..).to(..).emit
\* sends one packet to each socket that is in one of the rooms, first that of
\* the rooms of the shoot, then that of the rooms of the issues.
PacketsTo(socketRooms, event, tracked) ==
  LET first == Emit(ShootRooms(event.object), "shoots", event)
      second == Emissions(event, tracked) \ first
      Packet(chain) ==
        IF \E e \in chain : e.room \in socketRooms
        THEN << [channel |-> (CHOOSE e \in chain : TRUE).channel,
                 event |-> (CHOOSE e \in chain : TRUE).event,
                 pc |-> "sent"] >>
        ELSE <<>>
  IN  Packet(first) \o Packet(second)

OnChangeEvent(event) ==
  /\ Len(dispatched) < MaxDispatch
  /\ dispatched' = Append(dispatched,
        [event |-> event,
         tracked |-> event.object.uid \in shootsWithIssues,
         emits |-> Emissions(event, shootsWithIssues)])
  /\ shootsWithIssues' = TrackIssues(event, shootsWithIssues)
  /\ wire' = wire \o PacketsTo(rooms, event, shootsWithIssues)
  /\ UNCHANGED <<routerVars, engineVars>>

\* The objects the watch reports in this model.
WatchedShoots ==
  {Shoot("foo", "a", 1, issue) : issue \in BOOLEAN}
  \cup {Shoot("bar", "b", 1, issue) : issue \in BOOLEAN}

WatchEvents == {Event(type, object) : type \in EventTypes, object \in WatchedShoots}

InitDispatcher ==
  /\ shootsWithIssues = {}
  /\ dispatched = <<>>
  /\ wire = <<>>

NextDispatcher == \E event \in WatchEvents : OnChangeEvent(event)

(***************************************************************************)
(* Frontend: shoots list-state engine, state and helpers                   *)
(* (store/modules/shoots.js; the same helpers in shoots/helpers.js)        *)
(***************************************************************************)
getKey(metadata) == metadata.namespace \o "/" \o metadata.name

\* Object.keys(state.shoots)
Keys(items) == {getKey(items[i]) : i \in 1..Len(items)}

IndexOfKey(items, key) == CHOOSE i \in 1..Len(items) : getKey(items[i]) = key

\* state.shoots[key], for a key of the collection
getItemByKey(items, key) == items[IndexOfKey(items, key)]

\* lodash assign(oldItem, newItem): the own properties of newItem over oldItem's
assign(oldItem, newItem) ==
  [f \in DOMAIN oldItem \cup DOMAIN newItem |->
     IF f \in DOMAIN newItem THEN newItem[f] ELSE oldItem[f]]

\* Vue.set(state.shoots, key, item): a stored key keeps its place, a new one
\* comes last.
VueSet(items, key, item) ==
  IF key \in Keys(items)
  THEN [items EXCEPT ![IndexOfKey(items, key)] = item]
  ELSE Append(items, item)

\* Vue.delete(state.shoots, key)
VueDelete(items, key) ==
  IF key \notin Keys(items) THEN items
  ELSE SubSeq(items, 1, IndexOfKey(items, key) - 1)
       \o SubSeq(items, IndexOfKey(items, key) + 1, Len(items))

\* lodash keyBy(items, getKey)
RECURSIVE keyBy(_)
keyBy(items) ==
  IF items = <<>> THEN <<>>
  ELSE VueSet(keyBy(SubSeq(items, 1, Len(items) - 1)),
              getKey(items[Len(items)]), items[Len(items)])

\* The names of the model in alphabetical order; they are lower case, so
\* toLower leaves them as they are.
NameOrder ==
  <<"a", "b", "c", "d", "dev-1", "e", "f", "g", "h", "i", "j", "k", "prod-1">>

\* Comparing two names means comparing their places in the alphabet.
NameRank(name) == CHOOSE i \in 1..Len(NameOrder) : NameOrder[i] = name

\* state.sortParams before the list view has set it
NoSortParams == [sortBy |-> Null, sortDesc |-> FALSE]

\* utils (not in this part of the repository): getCreatedBy and
\* getProjectName read the metadata, isReconciliationDeactivated and
\* isStatusProgressing its annotations and generation, isShootStatusHibernated
\* the status.
getCreatedBy(item) == item.createdBy
getProjectName(item) == item.namespace
isReconciliationDeactivated(item) == item.ignore
isStatusProgressing(item) == item.progressing
isShootStatusHibernated(item) == item.hibernated

\* utils/errorCodes: the set of the codes of the errors, and whether one of
\* them is a code of an error that the user has caused.
UserErrorCodes == {"ERR_INFRA_UNAUTHORIZED"}
errorCodesFromArray(errors) == {errors[i] : i \in 1..Len(errors)}
isUserError(codes) == codes \cap UserErrorCodes # {}

\* lodash join(strings, ' ')
RECURSIVE join(_)
join(strings) ==
  IF strings = <<>> THEN Null
  ELSE IF Len(strings) = 1 THEN strings[1]
  ELSE strings[1] \o " " \o join(Tail(strings))

\* lodash flatMap(issues, 'data.labels')
RECURSIVE flatMap(_)
flatMap(tickets) ==
  IF tickets = <<>> THEN <<>> ELSE Head(tickets) \o flatMap(Tail(tickets))

\* lodash unionBy(labels, 'id'): each label once, at its first place
RECURSIVE unionBy(_)
unionBy(labels) ==
  IF labels = <<>> THEN <<>>
  ELSE IF \E i \in 1..(Len(labels) - 1) : labels[i] = labels[Len(labels)]
  THEN unionBy(SubSeq(labels, 1, Len(labels) - 1))
  ELSE Append(unionBy(SubSeq(labels, 1, Len(labels) - 1)), labels[Len(labels)])

\* rootGetters.ticketLabels(metadata): the labels of the tickets of a shoot
ticketLabels(item) == unionBy(flatMap(item.tickets))

\* The characters of the texts of the model, in the order of their UTF-16
\* code units.
CodeUnits ==
  " -./0123456789:@ABCDEFGHIJKLMNOPQRSTUVWXYZ_abcdefghijklmnopqrstuvwxyz"

\* The place of each character among them.
CodeUnitPlaces ==
  [ch \in {SubSeq(CodeUnits, i, i) : i \in 1..Len(CodeUnits)} |->
     CHOOSE i \in 1..Len(CodeUnits) : SubSeq(CodeUnits, i, i) = ch]

CodeUnitOf(ch) == CodeUnitPlaces[ch]

\* a < b for two texts, as JavaScript compares strings: by the code units of
\* the first place they differ in; a text stands before the texts it begins.
RECURSIVE TextBefore(_, _)
TextBefore(a, b) ==
  IF b = "" THEN FALSE
  ELSE IF a = "" THEN TRUE
  ELSE IF SubSeq(a, 1, 1) # SubSeq(b, 1, 1)
  THEN CodeUnitOf(SubSeq(a, 1, 1)) < CodeUnitOf(SubSeq(b, 1, 1))
  ELSE TextBefore(SubSeq(a, 2, Len(a)), SubSeq(b, 2, Len(b)))

\* lodash toLower(value): the capital letters become small ones; undefined
\* becomes the empty text.
RECURSIVE toLower(_)
toLower(value) ==
  IF value = "" THEN ""
  ELSE (IF /\ CodeUnitOf("A") <= CodeUnitOf(SubSeq(value, 1, 1))
           /\ CodeUnitOf(SubSeq(value, 1, 1)) <= CodeUnitOf("Z")
        THEN SubSeq(CodeUnits,
                    CodeUnitOf(SubSeq(value, 1, 1)) + CodeUnitOf("a") - CodeUnitOf("A"),
                    CodeUnitOf(SubSeq(value, 1, 1)) + CodeUnitOf("a") - CodeUnitOf("A"))
        ELSE SubSeq(value, 1, 1))
       \o toLower(SubSeq(value, 2, Len(value)))

\* The number a text of digits spells.
RECURSIVE NumberOf(_)
NumberOf(digits) ==
  IF digits = "" THEN 0
  ELSE 10 * NumberOf(SubSeq(digits, 1, Len(digits) - 1))
       + CodeUnitOf(SubSeq(digits, Len(digits), Len(digits))) - CodeUnitOf("0")

\* The place of the first dot of a text from a place on, 0 for none.
FirstDot(text, from) ==
  IF \E i \in from..Len(text) : SubSeq(text, i, i) = "."
  THEN CHOOSE i \in from..Len(text) :
         /\ SubSeq(text, i, i) = "."
         /\ \A j \in from..(i - 1) : SubSeq(text, j, j) # "."
  ELSE 0

\* semver.parse(version) for a version major.minor.patch without prerelease
\* or build: its three numbers.
semverParse(version) ==
  LET first == FirstDot(version, 1)
      second == FirstDot(version, first + 1)
  IN  << NumberOf(SubSeq(version, 1, first - 1)),
         NumberOf(SubSeq(version, first + 1, second - 1)),
         NumberOf(SubSeq(version, second + 1, Len(version))) >>

\* semver.compare(a, b) > 0 and < 0: the major, then the minor, then the
\* patch numbers decide.
semverGt(versionA, versionB) ==
  LET a == semverParse(versionA)
      b == semverParse(versionB)
  IN  \E i \in 1..3 : a[i] > b[i] /\ \A j \in 1..(i - 1) : a[j] = b[j]

semverLt(versionA, versionB) == semverGt(versionB, versionA)

\* getRawVal for the columns of the model, which are texts; a missing value
\* is Null
getRawVal(item, column) ==
  CASE column = "purpose" -> item.purpose
    [] column = "name" -> item.name
    [] column = "createdAt" -> item.creationTimestamp
    [] column = "createdBy" -> getCreatedBy(item)
    [] column = "project" -> getProjectName(item)
    [] column = "k8sVersion" -> item.k8sVersion
    [] column = "infrastructure" -> item.providerType \o " " \o item.region
    [] column = "seed" -> item.seedName
    [] column = "ticketLabels" -> join(ticketLabels(item))
    [] OTHER -> Null

\* getSortVal for 'lastOperation'. The code returns the numbers 0, 200, 400,
\* 450, 500, 700 and the texts '1pp', '3pp', '6pp' with the progress padded
\* to two digits; for a progress of 1 to 99 the texts have three digits and
\* compare, with each other and with the numbers, like the numbers they
\* spell.
lastOperationSortVal(item) ==
  LET operation == item.lastOperation
      inProgress == operation.progress # 100 /\ operation.state # "Failed"
                    /\ operation.progress # 0
      isError == operation.state = "Failed" \/ Len(item.lastErrors) > 0
      userError == isUserError(errorCodesFromArray(item.lastErrors))
  IN  IF isReconciliationDeactivated(item)
      THEN IF isError THEN 400 ELSE 450
      ELSE IF userError /\ ~inProgress THEN 200
      ELSE IF userError /\ inProgress THEN 300 + operation.progress
      ELSE IF isError /\ ~inProgress THEN 0
      ELSE IF isError /\ inProgress THEN 100 + operation.progress
      ELSE IF inProgress THEN 600 + operation.progress
      ELSE IF isShootStatusHibernated(item) THEN 500
      ELSE 700

\* getSortVal for 'readiness': head(orderBy(map(filter(conditions, status
\* !== 'True'), 'lastTransitionTime'))), the earliest lastTransitionTime of a
\* condition that is not 'True'; NoReadiness for undefined.
NoReadiness == 0

FailedSince(item) ==
  {item.conditions[i].lastTransitionTime :
     i \in {k \in 1..Len(item.conditions) : item.conditions[k].status # "True"}}

readinessSortVal(item) ==
  IF FailedSince(item) = {} THEN NoReadiness
  ELSE CHOOSE t \in FailedSince(item) : \A u \in FailedSince(item) : t <= u

\* getSortVal for the columns of orderBy: a number that compares like the
\* value for 'purpose' and 'lastOperation', and the text toLower(value) for
\* the columns of the default branch. ('readiness' is readinessSortVal; the
\* column 'ticket' reads the tickets store and is not a column of the model.)
getSortVal(item, sortBy) ==
  LET value == getRawVal(item, sortBy)
  IN  CASE sortBy = "purpose" ->
             ( CASE value = "infrastructure" -> 0
                 [] value = "production" -> 1
                 [] value = "development" -> 2
                 [] value = "evaluation" -> 3
                 [] OTHER -> 4 )
        [] sortBy = "lastOperation" -> lastOperationSortVal(item)
        [] sortBy = "readiness" -> readinessSortVal(item)
        [] sortBy = "ticket" -> item.latestUpdatedTicket
        [] OTHER -> toLower(value)

\* The comparator of items.sort for 'readiness': a sorts before b.
ReadinessBefore_Inverse(a, b, sortDesc) ==
  LET readinessA == readinessSortVal(a)
      readinessB == readinessSortVal(b)
  IN  IF readinessA = readinessB THEN NameRank(a.name) < NameRank(b.name)
      ELSE IF sortDesc THEN readinessA > readinessB ELSE readinessA < readinessB

ReadinessBefore(a, b, sortDesc) ==
  LET readinessA == readinessSortVal(a)
      readinessB == readinessSortVal(b)
  IN  IF readinessA = readinessB THEN NameRank(a.name) < NameRank(b.name)
      ELSE IF readinessA = NoReadiness THEN FALSE
      ELSE IF readinessB = NoReadiness THEN TRUE
      ELSE IF sortDesc THEN readinessA > readinessB ELSE readinessA < readinessB

\* The comparator of items.sort for 'k8sVersion': a sorts before b. The
\* versions are compared by semver, equal ones by the name, upwards.
K8sVersionBefore(a, b, sortDesc) ==
  LET versionA == getRawVal(a, "k8sVersion")
      versionB == getRawVal(b, "k8sVersion")
  IN  IF semverGt(versionA, versionB) THEN sortDesc
      ELSE IF semverLt(versionA, versionB) THEN ~sortDesc
      ELSE NameRank(a.name) < NameRank(b.name)

\* The order orderBy puts two different sort values of a column in: numbers
\* for 'purpose' and 'lastOperation', texts for 'ticket' and for the columns
\* of the default branch; undefined, which only 'ticket' yields, comes after
\* every text.
SortValBefore(value, other, sortBy) ==
  IF sortBy \in {"purpose", "lastOperation"} THEN value < other
  ELSE IF sortBy = "ticket"
  THEN value # Null /\ (other = Null \/ TextBefore(value, other))
  ELSE TextBefore(value, other)

\* lodash orderBy(items, [getSortVal, 'metadata.name'], [sortOrder, 'asc']),
\* and items.sort with the comparators of 'k8sVersion' and 'readiness': a
\* sorts before b.
ItemBefore(a, b, sp) ==
  LET va == getSortVal(a, sp.sortBy)
      vb == getSortVal(b, sp.sortBy)
  IN  IF sp.sortBy = "k8sVersion" THEN K8sVersionBefore(a, b, sp.sortDesc)
      ELSE IF sp.sortBy = "readiness" THEN ReadinessBefore(a, b, sp.sortDesc)
      ELSE IF va # vb
      THEN IF sp.sortDesc THEN SortValBefore(vb, va, sp.sortBy)
           ELSE SortValBefore(va, vb, sp.sortBy)
      ELSE NameRank(a.name) < NameRank(b.name)

\* One step of the stable sort: x goes before the first item it sorts before.
RECURSIVE InsertItem(_, _, _)
InsertItem(sorted, x, sp) ==
  IF sorted = <<>> THEN <<x>>
  ELSE IF ItemBefore(x, Head(sorted), sp) THEN <<x>> \o sorted
  ELSE <<Head(sorted)>> \o InsertItem(Tail(sorted), x, sp)

RECURSIVE orderBy(_, _)
orderBy(items, sp) ==
  IF items = <<>> THEN <<>>
  ELSE InsertItem(orderBy(SubSeq(items, 1, Len(items) - 1), sp),
                  items[Len(items)], sp)

\* getSortedKeys: Object.values(state.shoots), ordered when a column is set:
\* by items.sort for 'k8sVersion' and 'readiness', by orderBy for the others
getSortedKeys(items, sp) ==
  LET ordered == IF sp.sortBy # Null THEN orderBy(items, sp) ELSE items
  IN  [i \in 1..Len(ordered) |-> getKey(ordered[i])]

\* state.searchValue and state.shootListFilters before the list view has
\* set them (undefined)
NoSearchValue == <<>>
NoFilters ==
  [set |-> FALSE, progressing |-> FALSE, userIssues |-> FALSE,
   deactivatedReconciliation |-> FALSE, hideTicketsWithLabel |-> FALSE]

\* lodash split(text, ' '), from a position of the text on
RECURSIVE split(_, _)
split(text, from) ==
  IF \E i \in from..Len(text) : SubSeq(text, i, i) = " "
  THEN <<SubSeq(text, from, (CHOOSE i \in from..Len(text) :
                               /\ SubSeq(text, i, i) = " "
                               /\ \A j \in from..(i - 1) : SubSeq(text, j, j) # " ") - 1)>>
       \o split(text, (CHOOSE i \in from..Len(text) :
                         /\ SubSeq(text, i, i) = " "
                         /\ \A j \in from..(i - 1) : SubSeq(text, j, j) # " ") + 1)
  ELSE <<SubSeq(text, from, Len(text))>>

\* lodash includes(text, value) for a text: value is a part of it; nothing
\* is a part of a missing text.
includes(text, value) ==
  /\ text # Null
  /\ \E i \in 1..(Len(text) + 1 - Len(value)) :
       SubSeq(text, i, i + Len(value) - 1) = value

\* The columns the search reads.
SearchColumns_NameOnly == {"name"}

SearchColumns ==
  {"name", "infrastructure", "seed", "project", "createdBy", "purpose",
   "k8sVersion", "ticketLabels"}

\* The predicate of the search: a token is a part of a column's text.
MatchesSearch(item, search) ==
  \E i \in 1..Len(search) : \E column \in SearchColumns :
    includes(getRawVal(item, column), search[i])

\* rootState.cfg.ticket.hideClustersWithLabels
hideClustersWithLabels == {"ignore"}

HasTicketToShow_NoneHidden(item) ==
  \A t \in 1..Len(item.tickets) :
    \A i \in 1..Len(item.tickets[t]) : item.tickets[t][i] \notin hideClustersWithLabels

\* The predicate of the hideTicketsWithLabel filter: no ticket, or a ticket
\* without a label of the configuration.
HasTicketToShow(item) ==
  \/ item.tickets = <<>>
  \/ \E t \in 1..Len(item.tickets) :
       \A i \in 1..Len(item.tickets[t]) : item.tickets[t][i] \notin hideClustersWithLabels

\* lodash filter(keys, predicate), with the keys the predicate holds for
RECURSIVE filter(_, _)
filter(keys, kept) ==
  IF keys = <<>> THEN <<>>
  ELSE (IF Head(keys) \in kept THEN <<Head(keys)>> ELSE <<>>)
       \o filter(Tail(keys), kept)

\* rootState.namespace === '_all' && rootState.onlyShootsWithIssues
IssuesOnly == rootNamespace = "_all" /\ onlyShootsWithIssues

\* The keys of the items that pass the search and, in the issues-only view
\* of all namespaces, the filters that are switched on.
KeptKeys(items, search, filters, issuesOnly) ==
  { getKey(items[i]) : i \in
      { k \in 1..Len(items) :
          /\ search # NoSearchValue => MatchesSearch(items[k], search)
          /\ issuesOnly =>
               /\ filters.progressing => ~isStatusProgressing(items[k])
               /\ filters.userIssues =>
                    /\ ~isUserError(errorCodesFromArray(items[k].lastErrors))
                    /\ ~isUserError(errorCodesFromArray(ConditionCodes(items[k].conditions)))
               /\ filters.deactivatedReconciliation =>
                    ~isReconciliationDeactivated(items[k])
               /\ filters.hideTicketsWithLabel => HasTicketToShow(items[k]) } }

getFilteredKeys_OfCollection(items, sortedKeys, search, filters) ==
  filter([i \in 1..Len(items) |-> getKey(items[i])],
         KeptKeys(items, search, filters,
                  rootNamespace = "_all" /\ onlyShootsWithIssues))

\* The sorted keys the collection does not hold: getItemByKey gives
\* undefined for them.
AbsentKeys(items, sortedKeys) ==
  { sortedKeys[i] : i \in 1..Len(sortedKeys) }
  \ { getKey(items[i]) : i \in 1..Len(items) }

\* getFilteredKeys throws a TypeError when the search reads a column of an
\* undefined item (getRawVal reads item.metadata).
getFilteredKeysThrows(items, sortedKeys, search) ==
  search # NoSearchValue /\ AbsentKeys(items, sortedKeys) # {}

\* getFilteredKeys, for state.searchValue and state.shootListFilters, when
\* it does not throw: the predicates of the filters read an undefined item
\* with defaults and keep its key.
getFilteredKeys(items, sortedKeys, search, filters) ==
  filter(sortedKeys,
         KeptKeys(items, search, filters,
                  rootNamespace = "_all" /\ onlyShootsWithIssues)
         \cup AbsentKeys(items, sortedKeys))

\* updateFilteredShoots: SET_FILTERED_SHOOTS is committed with the keys
\* getFilteredKeys returns, and not at all when it throws.
updateFilteredShoots(current, items, sortedKeys, search, filters) ==
  IF getFilteredKeysThrows(items, sortedKeys, search)
  THEN current
  ELSE getFilteredKeys(items, sortedKeys, search, filters)

\* difference(oldItem, newItem): the properties of oldItem that differ
difference(oldItem, newItem) ==
  {f \in DOMAIN oldItem : f \notin DOMAIN newItem \/ oldItem[f] # newItem[f]}

\* isSortRequired(state, newItem, oldItem)
isSortRequired(sp, newItem, oldItem) ==
  CASE sp.sortBy \in {"name", "infrastructure", "project", "createdAt",
                      "createdBy", "ticketLabels"} -> FALSE
    [] sp.sortBy = "lastOperation" -> TRUE
    [] sp.sortBy = "purpose" ->
         "purpose" \in difference(oldItem, newItem) /\ oldItem.purpose # Null
    [] sp.sortBy = "k8sVersion" ->
         "k8sVersion" \in difference(oldItem, newItem) /\ oldItem.k8sVersion # Null
    [] sp.sortBy = "seed" ->
         "seedName" \in difference(oldItem, newItem) /\ oldItem.seedName # Null
    [] OTHER -> FALSE

(***************************************************************************)
(* Frontend: the event queue and its throttled pass (store/modules/shoots.js) *)
(***************************************************************************)
\* throttle(processEvents, 3000, { trailing: true })
ThrottleWait == 3000

\* The clock advances in steps of a sixth of the throttle window.
TickMs == ThrottleWait \div 6

\* A collection and its re-sort flag, as the mutations change them.
ListState(items, flag) == [shoots |-> items, sortRequired |-> flag]

PUT_ITEM_NoVersionCheck(st, newItem, sp) ==
  LET key == getKey(newItem)
  IN  IF key \in Keys(st.shoots)
      THEN ListState(VueSet(st.shoots, key,
                            assign(getItemByKey(st.shoots, key), newItem)),
                     TRUE)
      ELSE ListState(VueSet(st.shoots, key, newItem), TRUE)

PUT_ITEM(st, newItem, sp) ==
  LET key == getKey(newItem)
  IN  IF key \in Keys(st.shoots)
      THEN LET oldItem == getItemByKey(st.shoots, key)
           IN  IF oldItem.resourceVersion # newItem.resourceVersion
               THEN ListState(VueSet(st.shoots, key, assign(oldItem, newItem)),
                              st.sortRequired \/ isSortRequired(sp, newItem, oldItem))
               ELSE st
      ELSE ListState(VueSet(st.shoots, key, newItem), TRUE)

DELETE_ITEM(st, object) ==
  LET key == getKey(object)
  IN  IF key \in Keys(st.shoots)
      THEN ListState(VueDelete(st.shoots, key), TRUE)
      ELSE st

\* One turn of the loop of processEvents.
ApplyEvent(st, e, sp, issuesOnly) ==
  CASE e.type \in {"ADDED", "MODIFIED"} ->
         IF ~issuesOnly \/ shootHasIssue(e.object)
         THEN PUT_ITEM(st, e.object, sp)
         ELSE st
    [] e.type = "DELETED" -> DELETE_ITEM(st, e.object)
    [] OTHER -> st

\* The loop of processEvents over the queued events.
RECURSIVE ApplyEvents(_, _, _, _)
ApplyEvents(evs, st, sp, issuesOnly) ==
  IF evs = <<>> THEN st
  ELSE ApplyEvents(Tail(evs), ApplyEvent(st, Head(evs), sp, issuesOnly),
                   sp, issuesOnly)

\* The events of a pass that are about a key.
EventsOf(q, key) == {i \in 1..Len(q) : getKey(q[i].object) = key}

\* A pass brings events for the key, all of them ADDED or MODIFIED.
PutsOnly(q, key) ==
  /\ EventsOf(q, key) # {}
  /\ \A i \in EventsOf(q, key) : q[i].type \in {"ADDED", "MODIFIED"}

\* The stored keys a pass meets only with ADDED/MODIFIED events of the stored
\* resourceVersion.
KeysRepeated(q, items) ==
  {key \in Keys(items) :
     /\ PutsOnly(q, key)
     /\ \A i \in EventsOf(q, key) :
          q[i].object.resourceVersion = getItemByKey(items, key).resourceVersion}

\* The stored keys a pass meets only with ADDED/MODIFIED events of a
\* resourceVersion that is not newer than the stored one.
KeysNotNewer(q, items) ==
  {key \in Keys(items) :
     /\ PutsOnly(q, key)
     /\ \A i \in EventsOf(q, key) :
          q[i].object.resourceVersion <= getItemByKey(items, key).resourceVersion}

\* The stored keys a pass meets with one event only, an ADDED/MODIFIED event
\* of another resourceVersion than the stored one, older or newer.
KeysOfOtherVersion(q, items) ==
  {key \in Keys(items) :
     /\ PutsOnly(q, key)
     /\ Cardinality(EventsOf(q, key)) = 1
     /\ \A i \in EventsOf(q, key) :
          q[i].object.resourceVersion # getItemByKey(items, key).resourceVersion}

\* The one event of a pass that is about the key.
EventOf(q, key) == q[CHOOSE i \in EventsOf(q, key) : TRUE]

\* The record of a pass over the events q that took the collection from
\* `before` to `after`: the keys that met a repeated version, those that met
\* no newer version, those of them whose stored object is as it was, the keys
\* that met one event of another version, those of them whose event is of an
\* object without issue in the issues-only view of all namespaces, those of
\* them whose stored object is as it was, those of them whose stored object has the properties of the event's object over
\* those it had, whether the pass was nothing but repeated MODIFIED events,
\* whether the collection changed, and (flagged) whether the pass asked for a
\* re-sort.
Observed(q, before, after, flagged) ==
  [repeats |-> KeysRepeated(q, before),
   notNewer |-> KeysNotNewer(q, before),
   unchanged |-> {key \in KeysNotNewer(q, before) \cap Keys(after) :
                    getItemByKey(after, key) = getItemByKey(before, key)},
   others |-> KeysOfOtherVersion(q, before),
   skipped |-> {key \in KeysOfOtherVersion(q, before) :
                  IssuesOnly /\ ~shootHasIssue(EventOf(q, key).object)},
   kept |-> {key \in KeysOfOtherVersion(q, before) \cap Keys(after) :
               getItemByKey(after, key) = getItemByKey(before, key)},
   taken |-> {key \in KeysOfOtherVersion(q, before) \cap Keys(after) :
                getItemByKey(after, key)
                  = assign(getItemByKey(before, key), EventOf(q, key).object)},
   duplicate |-> /\ q # <<>>
                 /\ \A i \in 1..Len(q) : q[i].type = "MODIFIED"
                 /\ {getKey(q[i].object) : i \in 1..Len(q)}
                      = KeysRepeated(q, before),
   changed |-> after # before,
   flagged |-> flagged]

NoPass == Observed(<<>>, <<>>, <<>>, FALSE)

\* processEvents on the queue evs: CLEAR_EVENTS, the loop, and the re-sort
\* when state.sortRequired is set. The module has no SET_SORT_REQUIRED
\* mutation, so the commit at the end changes nothing.
processEvents(evs) ==
  LET st == ApplyEvents(evs, ListState(shoots, sortRequired), sortParams, IssuesOnly)
  IN  /\ events' = <<>>
      /\ shoots' = st.shoots
      /\ sortRequired' = st.sortRequired
      /\ IF st.sortRequired
         THEN /\ sortedShoots' = getSortedKeys(st.shoots, sortParams)
              /\ filteredShoots' = getFilteredKeys(st.shoots, sortedShoots', searchValue, shootListFilters)
         ELSE UNCHANGED <<sortedShoots, filteredShoots>>
      /\ passes' = Append(passes, [at |-> now, sorted |-> st.sortRequired])
      /\ lastPass' = Observed(evs, shoots, st.shoots, st.sortRequired /\ ~sortRequired)
      /\ UNCHANGED <<sortParams, viewVars>>

\* The timer state of lodash's debounce behind throttle: lastCallTime and
\* timerId are -1 when undefined.
Undefined == 0 - 1

shouldInvoke(t, time) ==
  \/ t.lastCallTime = Undefined
  \/ time - t.lastCallTime >= ThrottleWait
  \/ time - t.lastCallTime < 0
  \/ time - t.lastInvokeTime >= ThrottleWait

Min(x, y) == IF x <= y THEN x ELSE y

remainingWait(t, time) ==
  Min(ThrottleWait - (time - t.lastCallTime),
      ThrottleWait - (time - t.lastInvokeTime))

\* Whether a call of the throttled function at `time` invokes processEvents
\* at once (the leading edge, or the window having run out).
InvokesOnCall(t, time) == shouldInvoke(t, time)

ThrottleAfterCall_NoTrailing(t, time) ==
  IF InvokesOnCall(t, time)
  THEN [lastCallTime |-> time, lastInvokeTime |-> time,
        timerId |-> time + ThrottleWait, lastArgs |-> FALSE]
  ELSE [lastCallTime |-> time, lastInvokeTime |-> t.lastInvokeTime,
        timerId |-> IF t.timerId = Undefined THEN time + ThrottleWait ELSE t.timerId,
        lastArgs |-> FALSE]

\* The timer state after the call.
ThrottleAfterCall(t, time) ==
  IF InvokesOnCall(t, time)
  THEN [lastCallTime |-> time, lastInvokeTime |-> time,
        timerId |-> time + ThrottleWait, lastArgs |-> FALSE]
  ELSE [lastCallTime |-> time, lastInvokeTime |-> t.lastInvokeTime,
        timerId |-> IF t.timerId = Undefined THEN time + ThrottleWait ELSE t.timerId,
        lastArgs |-> TRUE]

\* The history of the events handed over.
NoBurst == [times |-> <<>>, keys |-> {}]

Handed(b, event, time) ==
  [times |-> Append(b.times, time),
   keys |-> b.keys \cup {getKey(event.object)}]

\* handleEvent: ADD_EVENT, then the throttled processEvents.
handleEvent(event) ==
  /\ Len(burst.times) < MaxEvents
  /\ throttle' = ThrottleAfterCall(throttle, now)
  /\ IF InvokesOnCall(throttle, now)
     THEN processEvents(Append(events, event))
     ELSE /\ events' = Append(events, event)
          /\ UNCHANGED <<listVars, passes, lastPass>>
  /\ lastType' = [lastType EXCEPT ![getKey(event.object)] = event.type]
  /\ burst' = Handed(burst, event, now)
  /\ cleared' = FALSE
  /\ UNCHANGED <<rootVars, clientVars, now>>
  /\ UNCHANGED <<routerVars, issueVars>>

\* shoots/handleEvent, dispatched with an event.
HandleEvent(event) ==
  /\ handleEvent(event)
  /\ UNCHANGED dispatcherVars

\* The channels addEventListeners puts a listener of events on.
EventListeners == {"shoot", "ticket", "comment"}

\* The socket of the client receives the oldest packet of the shoots watch
\* that is on its way: the listener of its channel dispatches
\* shoots/handleEvent with the event; a packet on a channel without listener
\* is dropped.
OnPacket(k) ==
  /\ wire[k].pc = "sent"
  /\ \A j \in 1..(k - 1) : wire[j].pc # "sent"
  /\ wire[k].channel \notin {"ticket", "comment"}
  /\ IF wire[k].channel = "shoot"
     THEN /\ handleEvent(wire[k].event)
          /\ wire' = [wire EXCEPT ![k].pc = "handed"]
     ELSE /\ wire' = [wire EXCEPT ![k].pc = "dropped"]
          /\ UNCHANGED <<routerVars, engineVars>>
  /\ UNCHANGED <<shootsWithIssues, dispatched>>

\* The shoots watch emits and the client receives.
NextDelivery ==
  \/ \E event \in WatchEvents : OnChangeEvent(event)
  \/ \E k \in 1..Len(wire) : OnPacket(k)

\* The timer of the throttle fires: the trailing edge invokes processEvents
\* when a call is waiting; before the window has run out the timer is set
\* again.
TimerExpired ==
  /\ throttle.timerId # Undefined
  /\ now >= throttle.timerId
  /\ IF shouldInvoke(throttle, now)
     THEN IF throttle.lastArgs
          THEN /\ throttle' = [throttle EXCEPT !.timerId = Undefined,
                                 !.lastArgs = FALSE, !.lastInvokeTime = now]
               /\ processEvents(events)
          ELSE /\ throttle' = [throttle EXCEPT !.timerId = Undefined]
               /\ UNCHANGED <<listVars, events, passes, lastPass>>
     ELSE /\ throttle' = [throttle EXCEPT !.timerId = now + remainingWait(throttle, now)]
          /\ UNCHANGED <<listVars, events, passes, lastPass>>
  /\ UNCHANGED <<rootVars, clientVars, now, lastType, burst, cleared>>
  /\ UNCHANGED <<routerVars, dispatcherVars, issueVars>>

\* Time passes, up to the instant the pending timer is due.
Tick(ms) ==
  /\ now + ms <= MaxTime
  /\ throttle.timerId = Undefined \/ now + ms <= throttle.timerId
  /\ now' = now + ms
  /\ UNCHANGED <<rootVars, clientVars, listVars, events, throttle, historyVars>>
  /\ UNCHANGED <<routerVars, dispatcherVars, issueVars>>

\* The mutation CLEAR_ALL, which leaves state.events (and
\* state.sortRequired) as they are.
CLEAR_ALL ==
  /\ shoots' = <<>>
  /\ sortedShoots' = <<>>
  /\ filteredShoots' = <<>>
  /\ UNCHANGED <<sortRequired, sortParams, viewVars>>

\* The unsubscribed and clearAll actions.
ClearAll ==
  /\ CLEAR_ALL
  /\ cleared' = TRUE
  /\ UNCHANGED <<rootVars, clientVars, queueVars, lastType, burst, passes, lastPass>>
  /\ UNCHANGED <<routerVars, dispatcherVars, issueVars>>

\* The events of a burst: MODIFIED events of three keys.
ThrottleEvents ==
  {Event("MODIFIED", Shoot("foo", name, 1, TRUE)) : name \in {"a", "b", "c"}}

\* The throttle under a burst, on a clock of half seconds.
NextThrottle ==
  \/ \E event \in ThrottleEvents : HandleEvent(event)
  \/ TimerExpired
  \/ Tick(TickMs)
  \/ ClearAll

\* The events handed to the queue engine: two keys, and of one of them an
\* older version, a newer version, a second reading of the newer one, and a
\* version without issue.
QueueEvents ==
  { Event("MODIFIED", Shoot("foo", "a", 1, TRUE)),
    Event("MODIFIED", Shoot("foo", "a", 2, TRUE)),
    Event("MODIFIED", ShootWith("foo", "a", 2, TRUE, "evaluation")),
    Event("MODIFIED", Shoot("foo", "a", 3, FALSE)),
    Event("DELETED", Shoot("foo", "a", 2, TRUE)),
    Event("ADDED", Shoot("foo", "b", 1, TRUE)) }

\* The queue engine under these events, on a clock of throttle windows.
NextQueue ==
  \/ \E event \in QueueEvents : HandleEvent(event)
  \/ TimerExpired
  \/ Tick(ThrottleWait)

\* The events of one shoot in two versions.
LatencyEvents ==
  { Event("MODIFIED", Shoot("foo", "a", 1, TRUE)),
    Event("MODIFIED", Shoot("foo", "a", 2, TRUE)) }

\* The queue engine with its subscription in force, on a clock of halves of
\* the throttle window; every event comes early enough for its window to
\* end on the clock.
NextLatency ==
  \/ \E event \in LatencyEvents : now + ThrottleWait <= MaxTime /\ HandleEvent(event)
  \/ TimerExpired
  \/ Tick(ThrottleWait \div 2)

(***************************************************************************)
(* Frontend: the batch engine (store/modules/shoots/actions.js,            *)
(* store/modules/shoots/mutations.js)                                      *)
(***************************************************************************)
\* The predicate of handleEvents, read against the collection as it is when
\* handleEvents is called.
KeepsEvent_VersionBlind(items, e, issuesOnly) ==
  LET key == getKey(e.object)
  IN  CASE e.type \in {"ADDED", "MODIFIED"} ->
             ~issuesOnly \/ shootHasIssue(e.object)
        [] e.type = "DELETED" -> key \in Keys(items)
        [] OTHER -> FALSE

KeepsEvent(items, e, issuesOnly) ==
  LET key == getKey(e.object)
  IN  CASE e.type \in {"ADDED", "MODIFIED"} ->
             /\ ~issuesOnly \/ shootHasIssue(e.object)
             /\ key \in Keys(items) =>
                  e.object.resourceVersion # getItemByKey(items, key).resourceVersion
        [] e.type = "DELETED" -> key \in Keys(items)
        [] OTHER -> FALSE

\* The predicate sets sortRequired for a kept event that adds or removes a key.
ChangesKeys(items, e) ==
  IF e.type = "DELETED" THEN TRUE ELSE getKey(e.object) \notin Keys(items)

\* One turn of the loop of the mutation HANDLE_EVENTS.
SetOrDelete(items, e) ==
  CASE e.type \in {"ADDED", "MODIFIED"} -> VueSet(items, getKey(e.object), e.object)
    [] e.type = "DELETED" -> VueDelete(items, getKey(e.object))
    [] OTHER -> items

\* The mutation HANDLE_EVENTS over the kept events.
RECURSIVE HANDLE_EVENTS(_, _)
HANDLE_EVENTS(items, evs) ==
  IF evs = <<>> THEN items
  ELSE HANDLE_EVENTS(SetOrDelete(items, Head(evs)), Tail(evs))

\* handleEvents(events): filter, commit, and the re-sort when a kept event
\* asks for it. state.sortRequired is not written.
handleEvents(batch) ==
  LET kept == SelectSeq(batch, LAMBDA event : KeepsEvent(shoots, event, IssuesOnly))
      resort ==
        \E i \in 1..Len(kept) :
           \/ ChangesKeys(shoots, kept[i])
           \/ isSortRequired(sortParams, kept[i].object,
                             getItemByKey(shoots, getKey(kept[i].object)))
  IN  /\ shoots' = HANDLE_EVENTS(shoots, kept)
      /\ IF resort
         THEN /\ sortedShoots' = getSortedKeys(shoots', sortParams)
              /\ filteredShoots' = getFilteredKeys(shoots', sortedShoots', searchValue, shootListFilters)
         ELSE UNCHANGED <<sortedShoots, filteredShoots>>
      /\ lastType' = [key \in DOMAIN lastType |->
                        LET of == {i \in 1..Len(batch) : getKey(batch[i].object) = key}
                        IN  IF of = {} THEN lastType[key]
                            ELSE batch[CHOOSE i \in of : \A j \in of : j <= i].type]
      /\ lastPass' = Observed(batch, shoots, shoots', resort)
      /\ cleared' = FALSE
      /\ UNCHANGED <<sortRequired, sortParams, viewVars, rootVars, clientVars, queueVars,
                     burst, passes>>
      /\ UNCHANGED <<routerVars, issueVars>>

\* shoots/handleEvents, dispatched with a batch of events.
HandleEvents(batch) ==
  /\ handleEvents(batch)
  /\ UNCHANGED dispatcherVars

\* The unsubscribed and clearAll actions of the batch engine: its CLEAR_ALL
\* resets state.sortRequired as well.
ClearAllBatch ==
  /\ shoots' = <<>>
  /\ sortedShoots' = <<>>
  /\ filteredShoots' = <<>>
  /\ sortRequired' = FALSE
  /\ cleared' = TRUE
  /\ lastType' = [key \in DOMAIN lastType |-> "none"]
  /\ UNCHANGED <<sortParams, viewVars, rootVars, clientVars, queueVars, burst, passes, lastPass>>
  /\ UNCHANGED <<routerVars, dispatcherVars, issueVars>>

\* The events of the batches in this model.
BatchEvents ==
  { Event("ADDED", Shoot("foo", "a", 1, TRUE)),
    Event("MODIFIED", Shoot("foo", "a", 2, TRUE)),
    Event("DELETED", Shoot("foo", "a", 2, TRUE)),
    Event("MODIFIED", ShootWith("foo", "c", 1, TRUE, "production")),
    Event("MODIFIED", ShootWith("foo", "c", 1, TRUE, "evaluation")) }

RECURSIVE SeqsUpTo(_, _)
SeqsUpTo(S, n) ==
  IF n = 0 THEN {<<>>}
  ELSE SeqsUpTo(S, n - 1) \cup {Append(q, x) : q \in SeqsUpTo(S, n - 1), x \in S}

\* The batches handed to handleEvents: one to MaxBatch events.
Batches == SeqsUpTo(BatchEvents, MaxBatch) \ {<<>>}

\* The events of a list whose shoots change their purpose: shoot a is created
\* without purpose and given one later, shoot c changes its purpose.
ResortEvents ==
  { Event("ADDED", Shoot("foo", "a", 1, TRUE)),
    Event("MODIFIED", ShootWith("foo", "a", 2, TRUE, "production")),
    Event("MODIFIED", ShootWith("foo", "a", 3, TRUE, "development")),
    Event("ADDED", ShootWith("foo", "c", 1, TRUE, "evaluation")),
    Event("MODIFIED", ShootWith("foo", "c", 2, TRUE, "infrastructure")),
    Event("DELETED", ShootWith("foo", "c", 2, TRUE, "infrastructure")) }

ResortBatches == SeqsUpTo(ResortEvents, MaxBatch) \ {<<>>}

NextResort == \E batch \in ResortBatches : HandleEvents(batch)

NextBatch ==
  \/ \E batch \in Batches : HandleEvents(batch)
  \/ ClearAllBatch

(***************************************************************************)
(* Frontend: subscription round trip (the socket plugin of the store, the  *)
(* subscription actions of store/modules/shoots.js)                        *)
(***************************************************************************)
NoSubscription == [set |-> FALSE, filter |-> Filter(Null, Null, Null)]

\* setSubscription(subscription) with an object: the namespace of the root
\* state goes into it, or unhealthy for the issues-only view of all
\* namespaces. URLSearchParams writes the flag as the text 'true'.
NewSubscription_IssuesOnly(name) ==
  [set |-> TRUE,
   filter |-> IF rootNamespace = "_all"
              THEN Filter(Null, name, "true")
              ELSE Filter(rootNamespace, name, Null)]

NewSubscriptionFor(namespace, issuesOnly, name) ==
  [set |-> TRUE,
   filter |-> IF namespace = "_all"
              THEN Filter(Null, name, IF issuesOnly THEN "true" ELSE Null)
              ELSE Filter(namespace, name, Null)]

NewSubscription(name) ==
  NewSubscriptionFor(rootNamespace, onlyShootsWithIssues, name)

\* No subscription in the tickets and in the comments module.
NoTopicSubscription == [topic \in {"tickets", "comments"} |-> NoSubscription]

\* setSubscription(subscription) of the tickets module, called with {}, and
\* of the comments module, called with {name}, which adds the namespace of
\* the root state.
NewTopicSubscription(topic, name) ==
  [set |-> TRUE,
   filter |-> IF topic = "comments"
              THEN Filter(rootNamespace, name, Null)
              ELSE Filter(Null, Null, Null)]

\* A call of subscribeTopic or unsubscribeTopic of the shoots topic: its request (0 when none
\* has reached the router), how far it has come, the subscription it loads,
\* the items of the chunks its fetchShoots has got so far,
\* and (history) who called, whether the socket was connected then, and
\* whether every earlier call had ended when it began.
Flow(op, req, origin) ==
  [topic |-> "shoots", op |-> op, pc |-> "emitted", req |-> req,
   filter |-> Filter(Null, Null, Null), items |-> <<>>,
   origin |-> origin, online |-> connected,
   quiet |-> \A i \in 1..Len(flows) : flows[i].pc = "done"]

\* No call of the plugin waits for its acknowledgement.
PagesQuiet == \A i \in 1..Len(flows) : flows[i].pc \in {"loading", "done"}

\* The same for any topic.
TopicFlow(topic, op, req, origin) == [Flow(op, req, origin) EXCEPT !.topic = topic]

\* store.state[topic].subscription
SubscriptionOf(topic) ==
  IF topic = "shoots" THEN subscription ELSE topicSubscription[topic]

\* The topics of the connected action, shoots only.
ConnectedTopics_ShootsOnly == <<"shoots">>

\* The topics of the connected action, in the order of its loop.
ConnectedTopics == <<"shoots", "tickets", "comments">>

\* subscribe(socket, subscription) of the plugin: `if (!socket.connected)
\* return`, else emit.
SendsSubscribe_Always(isConnected) == TRUE

SendsSubscribe(isConnected) == isConnected

\* subscribeTopic(context, 'shoots') with a subscription in the state: the
\* 'subscribe' request with the filter, or none when the socket is not
\* connected.
SubscribeTopic(origin) ==
  /\ Len(flows) < MaxFlows
  /\ connected => sendBuffer = <<>>
  /\ IF SendsSubscribe(connected)
     THEN /\ Arrive("subscribe", "shoots", subscription'.filter)
          /\ flows' = Append(flows, Flow("subscribe", Len(reqs) + 1, origin))
     ELSE /\ flows' = Append(flows, Flow("subscribe", 0, origin))
          /\ UNCHANGED routerVars
  /\ UNCHANGED <<calls, sendBuffer>>
  /\ UNCHANGED <<listVars, queueVars, historyVars>>
  /\ UNCHANGED <<dispatcherVars, issueVars>>

\* setSubscription(subscription): SUBSCRIBE, on which the plugin calls
\* subscribeTopic.
SetSubscription(name) ==
  /\ subscription' = NewSubscription(name)
  /\ SubscribeTopic("setSubscription")
  /\ UNCHANGED <<connected, rootVars>>

\* setNamespace(namespace) of the root store: SET_NAMESPACE, which leaves
\* the subscriptions and the lists as they are (the router subscribes on
\* demand); the subject rules it then asks for are not part of the model.
SetNamespace(namespace) ==
  /\ namespace # rootNamespace
  /\ rootNamespace' = namespace
  /\ UNCHANGED onlyShootsWithIssues
  /\ UNCHANGED <<clientVars, listVars, queueVars, historyVars>>
  /\ UNCHANGED <<routerVars, dispatcherVars, issueVars>>

\* setOnlyShootsWithIssues(value) of the root store:
\* SET_ONLY_SHOOTS_WITH_ISSUES, then subscribeShoots, which is
\* setSubscription({}) of the shoots under the new value.
SetOnlyShootsWithIssues(value) ==
  /\ onlyShootsWithIssues' = value
  /\ subscription' = NewSubscriptionFor(rootNamespace, value, Null)
  /\ SubscribeTopic("setSubscription")
  /\ UNCHANGED <<connected, rootNamespace>>

\* setSubscription(undefined): UNSUBSCRIBE, on which the plugin's
\* unsubscribeTopic emits 'unsubscribe'; the socket keeps the packet of an
\* emit without connection until it connects.
UnsetSubscription ==
  /\ Len(flows) < MaxFlows
  /\ connected => sendBuffer = <<>>
  /\ subscription' = NoSubscription
  /\ IF connected
     THEN /\ Arrive("unsubscribe", "shoots", Filter(Null, Null, Null))
          /\ flows' = Append(flows, Flow("unsubscribe", Len(reqs) + 1, "setSubscription"))
          /\ UNCHANGED sendBuffer
     ELSE /\ flows' = Append(flows, Flow("unsubscribe", 0, "setSubscription"))
          /\ sendBuffer' = Append(sendBuffer, Len(flows) + 1)
          /\ UNCHANGED routerVars
  /\ UNCHANGED <<calls, connected>>
  /\ UNCHANGED <<rootVars, listVars, queueVars, historyVars>>
  /\ UNCHANGED <<dispatcherVars, issueVars>>

\* socket.on('connect'), the socket connected by then: the connected action
\* commits SUBSCRIBE without a value for each topic, which keeps
\* state.subscription, and on each commit the plugin calls subscribeTopic,
\* which emits 'subscribe' with the subscription of the topic and does
\* nothing without one.
Connect ==
  /\ ~connected
  /\ connected' = TRUE
  /\ LET topics == SelectSeq(ConnectedTopics, LAMBDA topic : SubscriptionOf(topic).set)
     IN  IF topics # <<>>
         THEN /\ Len(flows) < MaxFlows
              /\ Len(reqs) < MaxRequests
              /\ reqs' = reqs \o
                   [k \in 1..Len(topics) |->
                      [NewRequest("subscribe", topics[k], SubscriptionOf(topics[k]).filter)
                         EXCEPT !.solo = @ /\ k = 1]]
              /\ flows' = flows \o
                   [k \in 1..Len(topics) |->
                      [TopicFlow(topics[k], "subscribe", Len(reqs) + k, "connected")
                         EXCEPT !.online = TRUE, !.quiet = @ /\ k = 1]]
              /\ UNCHANGED <<user, rooms>>
         ELSE UNCHANGED <<flows, routerVars>>
  /\ UNCHANGED <<subscription, calls, sendBuffer>>
  /\ UNCHANGED <<rootVars, listVars, queueVars, historyVars>>
  /\ UNCHANGED <<dispatcherVars, issueVars>>

\* The socket, connected, sends the oldest packet it has kept.
Flush ==
  /\ connected
  /\ sendBuffer # <<>>
  /\ Arrive("unsubscribe", flows[Head(sendBuffer)].topic, Filter(Null, Null, Null))
  /\ flows' = [flows EXCEPT ![Head(sendBuffer)].req = Len(reqs) + 1]
  /\ sendBuffer' = Tail(sendBuffer)
  /\ UNCHANGED <<subscription, calls, connected>>
  /\ UNCHANGED <<rootVars, listVars, queueVars, historyVars>>
  /\ UNCHANGED <<dispatcherVars, issueVars>>

\* socket.on('disconnect'): the disconnected action records the reason. The
\* router has dropped the socket and its rooms: the handlers that still run
\* for it act on a socket that is gone, and their acknowledgements reach
\* nobody; the next connection is a new socket in its own-id room.
Disconnect ==
  /\ connected
  /\ connected' = FALSE
  /\ rooms' = {SocketId}
  /\ reqs' = [i \in 1..Len(reqs) |->
               IF reqs[i].pc = "acked" THEN reqs[i]
               ELSE [reqs[i] EXCEPT !.pc = "dropped"]]
  /\ UNCHANGED user
  /\ UNCHANGED <<subscription, flows, calls, sendBuffer>>
  /\ UNCHANGED <<rootVars, listVars, queueVars, historyVars>>
  /\ UNCHANGED <<dispatcherVars, issueVars>>

\* The request of a call is answered, or subscribe has returned without a
\* request. An error goes to handleError; otherwise subscribeTopic and
\* unsubscribeTopic both dispatch topic + '/subscribed'. That of the shoots
\* does nothing without a subscription and otherwise commits CLEAR_ALL and
\* CLEAR_EVENTS and asks the API for the shoots; that of the comments asks
\* for the comments if there is a subscription; that of the tickets asks for
\* the tickets.
AckReceived(i) ==
  /\ flows[i].pc = "emitted"
  /\ IF flows[i].req = 0
     THEN \A j \in 1..Len(sendBuffer) : sendBuffer[j] # i
     ELSE reqs[flows[i].req].pc = "acked"
  /\ IF flows[i].topic # "shoots"
     THEN /\ flows' = [flows EXCEPT ![i] =
                 IF /\ flows[i].req = 0 \/ reqs[flows[i].req].error = Null
                    /\ flows[i].topic = "tickets" \/ topicSubscription[flows[i].topic].set
                 THEN [@ EXCEPT !.pc = "loading",
                                !.filter = topicSubscription[flows[i].topic].filter]
                 ELSE [@ EXCEPT !.pc = "done"]]
          /\ UNCHANGED <<listVars, queueVars, historyVars>>
     ELSE IF (flows[i].req = 0 \/ reqs[flows[i].req].error = Null) /\ subscription.set
     THEN /\ flows' = [flows EXCEPT ![i].pc = "loading", ![i].filter = subscription.filter]
          /\ CLEAR_ALL
          /\ events' = <<>>
          /\ cleared' = TRUE
          /\ UNCHANGED <<now, throttle, lastType, burst, passes, lastPass>>
     ELSE /\ flows' = [flows EXCEPT ![i].pc = "done"]
          /\ UNCHANGED <<listVars, queueVars, historyVars>>
  /\ UNCHANGED <<rootVars, subscription, calls, socketVars>>
  /\ UNCHANGED <<routerVars, dispatcherVars, issueVars>>

\* The request of a call is not acknowledged within the 15 seconds of emit:
\* subscribe and unsubscribe throw the timeout error, subscribeTopic and
\* unsubscribeTopic hand it to handleError (SET_ALERT) and end without
\* dispatching topic + '/subscribed'. An acknowledgement that comes later
\* finds the call ended. A subscribe without connection has called no emit
\* and has no timer.
TimedOut(i) ==
  /\ flows[i].pc = "emitted"
  /\ flows[i].req # 0 \/ flows[i].op = "unsubscribe"
  /\ flows' = [flows EXCEPT ![i].pc = "done"]
  /\ UNCHANGED <<rootVars, subscription, calls, socketVars>>
  /\ UNCHANGED <<listVars, queueVars, historyVars>>
  /\ UNCHANGED <<routerVars, dispatcherVars, issueVars>>

\* What the API answers to getShoot, getShoots or getUnhealthyShoots when it
\* answers with items.
Responses(f) ==
  LET ns == IF f.namespace = Null THEN "foo" ELSE f.namespace
  IN  IF f.namespace # Null /\ f.name # Null
      THEN {<<Shoot(ns, f.name, 1, TRUE)>>}
      ELSE {<<>>, <<Shoot(ns, "b", 1, TRUE), Shoot(ns, "a", 1, TRUE)>>}

\* The API has answered: RECEIVE and updateSortedShoots.
Loaded(i, items) ==
  /\ flows[i].pc = "loading"
  /\ flows[i].topic = "shoots"
  /\ flows' = [flows EXCEPT ![i].pc = "done"]
  /\ shoots' = keyBy(items)
  /\ sortedShoots' = getSortedKeys(shoots', sortParams)
  /\ filteredShoots' = getFilteredKeys(shoots', sortedShoots', searchValue, shootListFilters)
  /\ cleared' = FALSE
  /\ UNCHANGED <<sortRequired, sortParams, viewVars, rootVars, subscription, calls, socketVars,
                 queueVars,
                 lastType, burst, passes, lastPass>>
  /\ UNCHANGED <<routerVars, dispatcherVars, issueVars>>

\* The API rejects the request of a subscribed action of shoots.js, of the
\* tickets or of the comments module: the action throws at its await, before
\* RECEIVE; subscribeTopic catches the error and hands it to handleError
\* (SET_ALERT). The list stays as CLEAR_ALL has left it.
Rejected(i) ==
  /\ flows[i].pc = "loading"
  /\ flows' = [flows EXCEPT ![i].pc = "done"]
  /\ UNCHANGED <<rootVars, subscription, calls, socketVars>>
  /\ UNCHANGED <<listVars, queueVars, historyVars>>
  /\ UNCHANGED <<routerVars, dispatcherVars, issueVars>>

NextRoundTrip ==
  \/ \E name \in {Null} \cup ClusterNames : SetSubscription(name)
  \/ UnsetSubscription
  \/ \E i \in 1..Len(reqs) : \E room \in reqs[i].leaving : LeaveDone(i, room)
  \/ \E i \in 1..Len(reqs) : Resume(i)
  \/ \E i \in 1..Len(reqs) : JoinDone(i)
  \/ \E i \in 1..Len(flows) : AckReceived(i)
  \/ \E i \in 1..Len(flows) : \E items \in Responses(flows[i].filter) : Loaded(i, items)
  \/ \E i \in 1..Len(flows) : Rejected(i)

\* The round trip while the pages change the namespace and the issues-only
\* switch.
NextClient ==
  \/ NextRoundTrip
  \/ PagesQuiet /\ \E namespace \in {"foo", "_all"} : SetNamespace(namespace)
  \/ PagesQuiet /\ \E value \in BOOLEAN : SetOnlyShootsWithIssues(value)

\* The round trips of the list on a socket that connects and loses its
\* connection and whose requests may stay without acknowledgement.
NextSocket ==
  \/ Connect \/ Flush \/ Disconnect
  \/ SetSubscription(Null)
  \/ UnsetSubscription
  \/ \E i \in 1..Len(reqs) : \E room \in reqs[i].leaving : LeaveDone(i, room)
  \/ \E i \in 1..Len(reqs) : Resume(i)
  \/ \E i \in 1..Len(reqs) : JoinDone(i)
  \/ \E i \in 1..Len(flows) : AckReceived(i)
  \/ \E i \in 1..Len(flows) : TimedOut(i)

(***************************************************************************)
(* Frontend: emit, the request with its acknowledgement and its timeout    *)
(* (the socket plugin of the store)                                        *)
(***************************************************************************)
\* setTimeout(..., 15 * 1000)
AckTimeout == 15 * 1000

\* The clock of the emit calls advances in thirds of the timeout.
WaitMs == AckTimeout \div 3

\* resolve() or reject(err) of the promise of a call: the first one decides.
Settle(c, outcome) ==
  [c EXCEPT !.settles = @ + 1,
            !.outcome = IF @ = "pending" THEN outcome ELSE @]

\* emit(socket, eventName, subscription): the promise, the timer and the
\* one socket.emit.
NewCall(eventName, time) ==
  [eventName |-> eventName, sentAt |-> time, sent |-> 1,
   isPending |-> TRUE, timeoutId |-> time + AckTimeout,
   ackAt |-> Undefined, ackError |-> FALSE,
   settles |-> 0, outcome |-> "pending"]

\* The callback of setTimeout.
OnTimeout_StaysPending(c) ==
  Settle([c EXCEPT !.timeoutId = Undefined], "ETIMEDOUT")

OnTimeout(c) ==
  Settle([c EXCEPT !.isPending = FALSE, !.timeoutId = Undefined], "ETIMEDOUT")

\* The acknowledgement callback of socket.emit, called with {error}.
OnAck(c, error, time) ==
  IF c.isPending
  THEN Settle([c EXCEPT !.timeoutId = Undefined, !.ackAt = time, !.ackError = error],
              IF error THEN "rejected" ELSE "resolved")
  ELSE [c EXCEPT !.ackAt = time, !.ackError = error]

\* subscribe or unsubscribe of the plugin calls emit; subscribe returns
\* without a call when the socket is not connected.
EmitRequest(eventName) ==
  /\ Len(calls) < MaxCalls
  /\ eventName = "subscribe" => connected
  /\ calls' = Append(calls, NewCall(eventName, now))
  /\ UNCHANGED <<rootVars, subscription, flows, socketVars, listVars, queueVars, historyVars>>
  /\ UNCHANGED <<routerVars, dispatcherVars, issueVars>>

\* The server's acknowledgement of a call arrives, with or without an error.
Acknowledge(i, error) ==
  /\ calls[i].ackAt = Undefined
  /\ calls' = [calls EXCEPT ![i] = OnAck(@, error, now)]
  /\ UNCHANGED <<rootVars, subscription, flows, socketVars, listVars, queueVars, historyVars>>
  /\ UNCHANGED <<routerVars, dispatcherVars, issueVars>>

\* The timer of a call fires.
TimeoutFires(i) ==
  /\ calls[i].timeoutId # Undefined
  /\ now >= calls[i].timeoutId
  /\ calls' = [calls EXCEPT ![i] = OnTimeout(@)]
  /\ UNCHANGED <<rootVars, subscription, flows, socketVars, listVars, queueVars, historyVars>>
  /\ UNCHANGED <<routerVars, dispatcherVars, issueVars>>

\* Time passes, up to the instant the next timer is due.
Wait ==
  /\ now + WaitMs <= MaxWait
  /\ \A i \in 1..Len(calls) :
       calls[i].timeoutId # Undefined => now + WaitMs <= calls[i].timeoutId
  /\ now' = now + WaitMs
  /\ UNCHANGED <<rootVars, clientVars, listVars, events, throttle, historyVars>>
  /\ UNCHANGED <<routerVars, dispatcherVars, issueVars>>

NextEmit ==
  \/ \E eventName \in {"subscribe", "unsubscribe"} : EmitRequest(eventName)
  \/ \E i \in 1..Len(calls) : \E error \in BOOLEAN : Acknowledge(i, error)
  \/ \E i \in 1..Len(calls) : TimeoutFires(i)
  \/ Wait

(***************************************************************************)
(* Frontend: the list view sets the sort column, the search and the filters *)
(***************************************************************************)
\* setListSortParams(options)
SetListSortParams(options) ==
  /\ options # sortParams
  /\ sortParams' = options
  /\ sortedShoots' = getSortedKeys(shoots, sortParams')
  /\ filteredShoots' = getFilteredKeys(shoots, sortedShoots', searchValue, shootListFilters)
  /\ UNCHANGED <<shoots, sortRequired, viewVars>>
  /\ UNCHANGED <<rootVars, clientVars, queueVars, historyVars>>
  /\ UNCHANGED <<routerVars, dispatcherVars, issueVars>>

\* What the list view hands to setListSearchValue: undefined, null, or a
\* text, which may be empty.
UndefinedText == [kind |-> "undefined", text |-> ""]
NullText == [kind |-> "null", text |-> ""]
Text(t) == [kind |-> "string", text |-> t]

\* The mutation SET_SEARCH_VALUE: the tokens of a text that is not empty,
\* or undefined.
SET_SEARCH_VALUE(value) ==
  IF value.kind = "string" /\ value.text # ""
  THEN split(value.text, 1)
  ELSE NoSearchValue

\* setListSearchValue(searchValue): null and a text, the empty one too,
\* never equal the stored tokens or undefined, so only undefined over
\* undefined is left out.
SetListSearchValue(value) ==
  /\ value.kind # "undefined" \/ searchValue # NoSearchValue
  /\ searchValue' = SET_SEARCH_VALUE(value)
  /\ filteredShoots' = updateFilteredShoots(filteredShoots, shoots, sortedShoots,
                                            searchValue', shootListFilters)
  /\ UNCHANGED <<shoots, sortedShoots, sortRequired, sortParams, shootListFilters>>
  /\ UNCHANGED <<rootVars, clientVars, queueVars, historyVars>>
  /\ UNCHANGED <<routerVars, dispatcherVars, issueVars>>

\* setShootListFilters(value)
SetShootListFilters(value) ==
  /\ shootListFilters' = value
  /\ filteredShoots' = updateFilteredShoots(filteredShoots, shoots, sortedShoots,
                                            searchValue, shootListFilters')
  /\ UNCHANGED <<shoots, sortedShoots, sortRequired, sortParams, searchValue>>
  /\ UNCHANGED <<rootVars, clientVars, queueVars, historyVars>>
  /\ UNCHANGED <<routerVars, dispatcherVars, issueVars>>

\* setShootListFilter({filter, value}), which does nothing before the
\* filters are set
SetShootListFilter(name, value) ==
  /\ shootListFilters.set
  /\ shootListFilters' = [shootListFilters EXCEPT ![name] = value]
  /\ filteredShoots' = updateFilteredShoots(filteredShoots, shoots, sortedShoots,
                                            searchValue, shootListFilters')
  /\ UNCHANGED <<shoots, sortedShoots, sortRequired, sortParams, searchValue>>
  /\ UNCHANGED <<rootVars, clientVars, queueVars, historyVars>>
  /\ UNCHANGED <<routerVars, dispatcherVars, issueVars>>

\* The shoots of the lists: one in progress, two with the reconciliation
\* deactivated (one failed, one not), one in progress with an error and a
\* ticket to hide, one in progress with an error of the user and two
\* tickets, one of them to hide.
ListShoots ==
  << [ShootWith("foo", "prod-1", 1, TRUE, "production") EXCEPT
        !.lastOperation = [state |-> "Processing", progress |-> 50]],
     [ShootWith("foo", "dev-1", 1, TRUE, Null) EXCEPT
        !.ignore = TRUE,
        !.lastOperation = [state |-> "Failed", progress |-> 50]],
     [ShootWith("foo", "a", 1, TRUE, Null) EXCEPT
        !.ignore = TRUE, !.providerType = "gcp", !.region = "us-1",
        !.lastOperation = [state |-> "Succeeded", progress |-> 100]],
     [ShootWith("foo", "b", 1, TRUE, Null) EXCEPT
        !.progressing = TRUE, !.tickets = << <<"ignore">> >>,
        !.latestUpdatedTicket = "2020-02-01T00:00:00Z",
        !.lastOperation = [state |-> "Processing", progress |-> 5],
        !.lastErrors = <<"ERR_INFRA_DEPENDENCIES">>],
     [ShootWith("foo", "c", 1, TRUE, Null) EXCEPT
        !.tickets = << <<"bug", "urgent">>, <<"ignore">> >>,
        !.latestUpdatedTicket = "2020-03-01T00:00:00Z",
        !.lastOperation = [state |-> "Processing", progress |-> 99],
        !.lastErrors = <<"ERR_INFRA_UNAUTHORIZED">>] >>

\* The lists the API answers with: some of the shoots, in their order.
ListChoices ==
  { filter(ListShoots, S) :
      S \in {T \in SUBSET {ListShoots[i] : i \in 1..Len(ListShoots)} :
               Cardinality(T) <= MaxList} }

\* A shoot of the sorted lists: its name, status.lastOperation, the codes of
\* status.lastErrors, the marks for a deactivated reconciliation and for
\* hibernation, and status.conditions.
SortShoot(name, state, progress, lastErrors, ignore, hibernated, conditions) ==
  [Shoot("foo", name, 1, TRUE) EXCEPT
     !.lastOperation = [state |-> state, progress |-> progress],
     !.lastErrors = lastErrors, !.ignore = ignore, !.hibernated = hibernated,
     !.conditions = conditions]

\* The shoots of the sorted lists, their names against the order of their
\* last operations: failed; in progress with an error; with an error of the
\* user; in progress with an error of the user; reconciliation deactivated,
\* failed and not; hibernated; in progress at 7 and at 50 percent; two idle
\* ones. Four of them have conditions: a none that fails, b and d one that
\* fails since time 2, c two that fail since the times 3 and 1. The
\* Kubernetes version of b is 1.9.3, that of a 1.18.10, that of the others
\* 1.18.2. k and j have a ticket each, that of k updated last.
SortShoots ==
  << [SortShoot("k", "Failed", 50, <<>>, FALSE, FALSE, <<>>) EXCEPT
        !.tickets = << <<"bug">> >>, !.latestUpdatedTicket = "2020-03-01T00:00:00Z"],
     [SortShoot("j", "Processing", 5, <<"ERR_INFRA_DEPENDENCIES">>, FALSE, FALSE, <<>>) EXCEPT
        !.tickets = << <<"bug">> >>, !.latestUpdatedTicket = "2020-02-01T00:00:00Z"],
     SortShoot("i", "Succeeded", 100, <<"ERR_INFRA_UNAUTHORIZED">>, FALSE, FALSE, <<>>),
     SortShoot("h", "Processing", 99, <<"ERR_INFRA_UNAUTHORIZED">>, FALSE, FALSE, <<>>),
     SortShoot("g", "Failed", 50, <<>>, TRUE, FALSE, <<>>),
     SortShoot("f", "Succeeded", 100, <<>>, TRUE, FALSE, <<>>),
     SortShoot("e", "Succeeded", 100, <<>>, FALSE, TRUE, <<>>),
     SortShoot("d", "Processing", 7, <<>>, FALSE, FALSE,
               <<Condition("True", 1, Null), Condition("False", 2, Null)>>),
     SortShoot("c", "Processing", 50, <<>>, FALSE, FALSE,
               <<Condition("Progressing", 3, Null), Condition("False", 1, Null)>>),
     [SortShoot("b", "Succeeded", 100, <<>>, FALSE, FALSE,
                <<Condition("Unknown", 2, Null)>>) EXCEPT !.k8sVersion = "1.9.3"],
     [SortShoot("a", "Succeeded", 100, <<>>, FALSE, FALSE,
                <<Condition("True", 3, Null)>>) EXCEPT !.k8sVersion = "1.18.10"] >>

\* The lists the API answers with: some of these shoots, in their order.
SortLists ==
  { filter(SortShoots, S) :
      S \in {T \in SUBSET {SortShoots[i] : i \in 1..Len(SortShoots)} :
               Cardinality(T) <= MaxList} }

\* The list view sorts a loaded list by the last operation, by the
\* readiness, by the Kubernetes version and by the latest ticket, upwards
\* and downwards.
NextSort ==
  \E sortBy \in {"lastOperation", "readiness", "k8sVersion", "ticket"} : \E sortDesc \in BOOLEAN :
     SetListSortParams([sortBy |-> sortBy, sortDesc |-> sortDesc])

\* The columns and directions the list view sorts by in this model.
ListSortChoices ==
  { [sortBy |-> "lastOperation", sortDesc |-> FALSE],
    [sortBy |-> "lastOperation", sortDesc |-> TRUE],
    [sortBy |-> "name", sortDesc |-> FALSE],
    [sortBy |-> "infrastructure", sortDesc |-> TRUE] }

\* What the search field hands over: nothing, null, the empty text, texts.
SearchTexts ==
  {UndefinedText, NullText, Text(""), Text("prod"), Text("aws"), Text("Prod"),
   Text("gcp urgent")}

\* The values setShootListFilters is called with: one filter on, or none.
FilterChoices ==
  { [NoFilters EXCEPT !.set = TRUE],
    [NoFilters EXCEPT !.set = TRUE, !.progressing = TRUE],
    [NoFilters EXCEPT !.set = TRUE, !.userIssues = TRUE],
    [NoFilters EXCEPT !.set = TRUE, !.deactivatedReconciliation = TRUE],
    [NoFilters EXCEPT !.set = TRUE, !.hideTicketsWithLabel = TRUE] }

NextList ==
  \/ \E options \in ListSortChoices : SetListSortParams(options)
  \/ \E text \in SearchTexts : SetListSearchValue(text)
  \/ \E value \in FilterChoices : SetShootListFilters(value)
  \/ \E name \in {"progressing", "deactivatedReconciliation"} :
       \E value \in BOOLEAN : SetShootListFilter(name, value)

\* The list view switches its filters and searches.
NextScopes ==
  \/ \E value \in FilterChoices : SetShootListFilters(value)
  \/ \E name \in {"progressing", "userIssues", "deactivatedReconciliation",
                  "hideTicketsWithLabel"} :
       \E value \in BOOLEAN : SetShootListFilter(name, value)
  \/ \E text \in {UndefinedText, Text(""), Text("aws")} : SetListSearchValue(text)
  \/ \E namespace \in {"foo", "_all"} : SetNamespace(namespace)
  \/ PagesQuiet /\ \E value \in BOOLEAN : SetOnlyShootsWithIssues(value)

\* The same events under a list view that searches.
NextRefilter ==
  \/ \E batch \in ResortBatches : HandleEvents(batch)
  \/ \E text \in {UndefinedText, NullText, Text("prod")} : SetListSearchValue(text)

(***************************************************************************)
(* Frontend: the load of the list (subscribed and fetchShoots of           *)
(* store/modules/shoots/actions.js, RECEIVE of                             *)
(* store/modules/shoots/mutations.js)                                      *)
(***************************************************************************)
\* The mutation RECEIVE: state.shoots becomes the items, by their keys.
RECEIVE(items) == keyBy(items)

\* What the API answers a call of fetchShoots next when it answers with
\* items, as <<items, continue>>: the one shoot, the list of the namespace,
\* or the next chunk of the list of all namespaces with metadata.continue
\* when another chunk follows.
Answers(fetch) ==
  LET f == fetch.filter
      ns == IF f.namespace = Null THEN "foo" ELSE f.namespace
  IN  CASE f.namespace # Null /\ f.name # Null ->
             {<<<<Shoot(ns, f.name, 1, TRUE)>>, FALSE>>}
        [] f.namespace # Null ->
             {<<<<>>, FALSE>>,
              <<<<Shoot(ns, "b", 1, TRUE), Shoot(ns, "a", 1, TRUE)>>, FALSE>>}
        [] fetch.items = <<>> ->
             {<<<<Shoot(ns, "b", 1, TRUE)>>, TRUE>>,
              <<<<Shoot(ns, "b", 1, TRUE), Shoot(ns, "a", 1, TRUE)>>, FALSE>>}
        [] OTHER -> {<<<<Shoot(ns, "a", 1, TRUE)>>, FALSE>>}

\* The request of call i of subscribeTopic or unsubscribeTopic is answered,
\* or subscribe has returned without a request: after an error the plugin
\* calls handleError; otherwise it dispatches shoots/subscribed, which does
\* nothing without a subscription in the state and otherwise commits
\* CLEAR_ALL and calls fetchShoots with it, without waiting for it.
Subscribed(i) ==
  /\ flows[i].pc = "emitted"
  /\ flows[i].topic = "shoots"
  /\ IF flows[i].req = 0
     THEN \A j \in 1..Len(sendBuffer) : sendBuffer[j] # i
     ELSE reqs[flows[i].req].pc = "acked"
  /\ IF (flows[i].req = 0 \/ reqs[flows[i].req].error = Null) /\ subscription.set
     THEN /\ flows' = [flows EXCEPT ![i].pc = "loading", ![i].filter = subscription.filter]
          /\ shoots' = <<>>
          /\ sortedShoots' = <<>>
          /\ filteredShoots' = <<>>
          /\ sortRequired' = FALSE
          /\ cleared' = TRUE
          /\ lastType' = [key \in DOMAIN lastType |-> "none"]
     ELSE /\ flows' = [flows EXCEPT ![i].pc = "done"]
          /\ UNCHANGED <<shoots, sortedShoots, filteredShoots, sortRequired, cleared,
                         lastType>>
  /\ UNCHANGED <<sortParams, viewVars, rootVars, subscription, calls, socketVars,
                 queueVars, burst, passes, lastPass>>
  /\ UNCHANGED <<routerVars, dispatcherVars, issueVars>>

\* The API answers call i of fetchShoots: RECEIVE with the item, with the
\* items, or with the items of all chunks so far, and updateSortedShoots
\* where a list was asked for. After the last answer the call is over.
Received(i, items, continue) ==
  /\ flows[i].pc = "loading"
  /\ flows[i].topic = "shoots"
  /\ <<items, continue>> \in Answers(flows[i])
  /\ flows' = IF continue
              THEN [flows EXCEPT ![i].items = @ \o items]
              ELSE [flows EXCEPT ![i].pc = "done", ![i].items = <<>>]
  /\ shoots' = RECEIVE(flows[i].items \o items)
  /\ IF flows[i].filter.namespace # Null /\ flows[i].filter.name # Null
     THEN UNCHANGED <<sortedShoots, filteredShoots>>
     ELSE /\ sortedShoots' = getSortedKeys(shoots', sortParams)
          /\ filteredShoots' = getFilteredKeys(shoots', sortedShoots', searchValue,
                                               shootListFilters)
  /\ cleared' = FALSE
  /\ UNCHANGED <<sortRequired, sortParams, viewVars, rootVars, subscription, calls,
                 socketVars, queueVars, lastType, burst, passes, lastPass>>
  /\ UNCHANGED <<routerVars, dispatcherVars, issueVars>>

\* The API rejects a request of call i of fetchShoots, the first or that of
\* a later chunk: fetchShoots catches the error and logs it, and the call is
\* over. What earlier chunks have committed stays.
FetchFailed(i) ==
  /\ flows[i].pc = "loading"
  /\ flows[i].topic = "shoots"
  /\ flows' = [flows EXCEPT ![i].pc = "done", ![i].items = <<>>]
  /\ UNCHANGED <<rootVars, subscription, calls, socketVars>>
  /\ UNCHANGED <<listVars, queueVars, historyVars>>
  /\ UNCHANGED <<routerVars, dispatcherVars, issueVars>>

\* The events the store is handed while the list loads: shoot c, which every
\* subscription of the model asks for, comes, changes and goes.
LoadEvents ==
  { Event("ADDED", Shoot("foo", "c", 1, TRUE)),
    Event("MODIFIED", ShootWith("foo", "c", 2, TRUE, "production")),
    Event("DELETED", ShootWith("foo", "c", 2, TRUE, "production")) }

\* The batches of them handed to handleEvents: one to MaxBatch events.
LoadBatches == SeqsUpTo(LoadEvents, MaxBatch) \ {<<>>}

\* The events the store is handed under a list view, in the order of the
\* watch: shoot c comes, progressing, with a Kubernetes version and a creator
\* of its own, shoot a changes and goes.
ViewEvents ==
  << Event("ADDED", [Shoot("foo", "c", 1, TRUE) EXCEPT
                       !.progressing = TRUE, !.k8sVersion = "1.9.3",
                       !.createdBy = "Zoe@example.org"]),
     Event("MODIFIED", ShootWith("foo", "a", 2, TRUE, "production")),
     Event("DELETED", ShootWith("foo", "a", 2, TRUE, "production")) >>

\* The batches of them handed to handleEvents: any one event.
ViewBatches == {<<ViewEvents[i]>> : i \in 1..Len(ViewEvents)}

\* The round trip of a subscription and the fetch that follows it.
NextFetch ==
  \/ \E i \in 1..Len(reqs) : \E room \in reqs[i].leaving : LeaveDone(i, room)
  \/ \E i \in 1..Len(reqs) : Resume(i)
  \/ \E i \in 1..Len(reqs) : JoinDone(i)
  \/ \E i \in 1..Len(flows) : Subscribed(i)
  \/ \E i \in 1..Len(flows) : \E answer \in Answers(flows[i]) :
       Received(i, answer[1], answer[2])
  \/ \E i \in 1..Len(flows) : FetchFailed(i)

\* The list loads, for the list or for shoot c, while shoots/handleEvents is
\* dispatched with batches of events at any time; the page asks for a
\* subscription when no call awaits its acknowledgement.
NextLoad ==
  \/ PagesQuiet /\ \E name \in {Null, "c"} : SetSubscription(name)
  \/ PagesQuiet /\ UnsetSubscription
  \/ NextFetch
  \/ \E i \in 1..Len(flows) : TimedOut(i)
  \/ \E batch \in LoadBatches : HandleEvents(batch)

\* The columns and directions the list view sorts by while it loads.
ViewSortChoices ==
  { [sortBy |-> "purpose", sortDesc |-> TRUE],
    [sortBy |-> "k8sVersion", sortDesc |-> FALSE],
    [sortBy |-> "createdBy", sortDesc |-> TRUE] }

\* The page of the list subscribes, then the page of shoot c, under a list
\* view that goes over to all namespaces and is cleared, sorted, searched
\* and filtered at any time, while shoots/handleEvents is dispatched with
\* batches of events at any time.
NextView ==
  \/ flows = <<>> /\ SetSubscription(Null)
  \/ Len(flows) = 1 /\ PagesQuiet /\ SetSubscription("c")
  \/ NextFetch
  \/ SetNamespace("_all")
  \/ \E batch \in ViewBatches : HandleEvents(batch)
  \/ ClearAllBatch
  \/ \E options \in ViewSortChoices : SetListSortParams(options)
  \/ \E text \in {NullText, Text("prod")} : SetListSearchValue(text)
  \/ \E value \in BOOLEAN : SetShootListFilter("progressing", value)

(***************************************************************************)
(* Frontend: the tickets and the comments modules of the store, in their   *)
(* two revisions: one event at a time (store/modules/tickets.js,           *)
(* store/modules/comments.js) and batches of events                        *)
(* (store/modules/tickets/index.js, store/modules/comments/index.js)       *)
(***************************************************************************)
\* metadata.updated_at is an ISO 8601 time in UTC, a string of fixed width,
\* which <= compares as the times it stands for: here the number of the
\* time, 1..MaxStamp.
Stamps == 1..MaxStamp

\* A ticket: metadata.number, metadata.updated_at, data.body.
Ticket(number, updated_at, body) ==
  [number |-> number, updated_at |-> updated_at, body |-> body]

\* A comment: metadata.number, metadata.id, metadata.updated_at, data.body.
Comment(number, id, updated_at, body) ==
  [number |-> number, id |-> id, updated_at |-> updated_at, body |-> body]

\* lodash findIndex(items, [path, key]): the index from 0, or -1
RECURSIVE findIndexFrom(_, _, _, _)
findIndexFrom(items, path, key, from) ==
  IF from > Len(items) THEN -1
  ELSE IF items[from][path] = key THEN from - 1
  ELSE findIndexFrom(items, path, key, from + 1)

findIndex(items, path, key) == findIndexFrom(items, path, key, 1)

\* items.splice(index, 1, item) and items.splice(index, 1)
splice(items, index, item) == [items EXCEPT ![index + 1] = item]

spliceOut(items, index) ==
  SubSeq(items, 1, index) \o SubSeq(items, index + 2, Len(items))

\* Where orderBy puts an item among sorted items: after those that are not
\* older (the sort is stable).
InsertByUpdatedAt(sorted, item) ==
  LET before == {i \in 1..Len(sorted) : sorted[i].updated_at >= item.updated_at}
      place == IF before = {} THEN 0 ELSE CHOOSE i \in before : \A j \in before : j <= i
  IN  SubSeq(sorted, 1, place) \o <<item>> \o SubSeq(sorted, place + 1, Len(sorted))

RECURSIVE orderByFrom(_, _, _)
orderByFrom(items, from, sorted) ==
  IF from > Len(items) THEN sorted
  ELSE orderByFrom(items, from + 1, InsertByUpdatedAt(sorted, items[from]))

\* orderByUpdatedAt(items): orderBy(items, ['metadata.updated_at'], ['desc'])
orderByUpdatedAt(items) == orderByFrom(items, 1, <<>>)

\* tickets.js, mutation PUT_ITEM, without the comparison of updated_at
ticketsPUT_ITEM_NoCompare(all, item) ==
  LET index == findIndex(all, "number", item.number)
  IN  IF index # -1 THEN splice(all, index, item)
      ELSE orderByUpdatedAt(Append(all, item))

\* tickets.js, mutation PUT_ITEM
ticketsPUT_ITEM(all, item) ==
  LET index == findIndex(all, "number", item.number)
  IN  IF index # -1
      THEN IF all[index + 1].updated_at <= item.updated_at
           THEN splice(all, index, item)
           ELSE all
      ELSE orderByUpdatedAt(Append(all, item))

\* tickets.js, mutation DELETE_ITEM
ticketsDELETE_ITEM(all, item) ==
  LET index == findIndex(all, "number", item.number)
  IN  IF index # -1 THEN spliceOut(all, index) ELSE all

\* tickets/index.js, mutation HANDLE_EVENTS: the body of the loop. A type
\* the switch does not name is logged and changes nothing.
ticketsHandleOne(all, e) ==
  LET index == findIndex(all, "number", e.object.number)
  IN  CASE e.type \in {"ADDED", "MODIFIED"} ->
             IF index # -1
             THEN IF all[index + 1].updated_at <= e.object.updated_at
                  THEN splice(all, index, e.object)
                  ELSE all
             ELSE orderByUpdatedAt(Append(all, e.object))
        [] e.type = "DELETED" ->
             IF index # -1 THEN spliceOut(all, index) ELSE all
        [] OTHER -> all

\* tickets/index.js, mutation HANDLE_EVENTS
RECURSIVE ticketsHANDLE_EVENTS(_, _)
ticketsHANDLE_EVENTS(all, evs) ==
  IF evs = <<>> THEN all
  ELSE ticketsHANDLE_EVENTS(ticketsHandleOne(all, Head(evs)), Tail(evs))

\* The comments of the store: state.all[number] for the numbers it holds.
NoComments == [number \in {} |-> <<>>]

\* Vue.set(state.all, number, items) and state.all[number] = items
SetGroup(all, number, items) ==
  [n \in (DOMAIN all) \cup {number} |-> IF n = number THEN items ELSE all[n]]

\* comments.js, mutation PUT_ITEM
commentsPUT_ITEM(all, item) ==
  IF item.number \notin DOMAIN all
  THEN SetGroup(all, item.number, <<item>>)
  ELSE LET items == all[item.number]
           index == findIndex(items, "id", item.id)
       IN  IF index # -1
           THEN IF items[index + 1].updated_at <= item.updated_at
                THEN SetGroup(all, item.number, splice(items, index, item))
                ELSE all
           ELSE SetGroup(all, item.number, orderByUpdatedAt(Append(items, item)))

\* comments.js, mutation DELETE_ITEM
commentsDELETE_ITEM(all, item) ==
  IF item.number \notin DOMAIN all
  THEN all
  ELSE LET items == all[item.number]
           index == findIndex(items, "id", item.id)
       IN  IF index # -1
           THEN SetGroup(all, item.number, spliceOut(items, index))
           ELSE all

\* comments/index.js, mutation HANDLE_EVENTS: an event that ends the loop,
\* the return of Vue.set for the first comment of a number not yet stored
ReturnsFromLoop(all, e) ==
  /\ e.type \in {"ADDED", "MODIFIED"}
  /\ e.object.number \notin DOMAIN all

\* comments/index.js, mutation HANDLE_EVENTS: the body of the loop. A type
\* the switch does not name is logged and changes nothing.
commentsHandleOne(all, e) ==
  CASE e.type \in {"ADDED", "MODIFIED"} -> commentsPUT_ITEM(all, e.object)
    [] e.type = "DELETED" -> commentsDELETE_ITEM(all, e.object)
    [] OTHER -> all

\* comments/index.js, mutation HANDLE_EVENTS
RECURSIVE commentsHANDLE_EVENTS(_, _)
commentsHANDLE_EVENTS(all, evs) ==
  IF evs = <<>> THEN all
  ELSE IF ReturnsFromLoop(all, Head(evs))
  THEN commentsHandleOne(all, Head(evs))
  ELSE commentsHANDLE_EVENTS(commentsHandleOne(all, Head(evs)), Tail(evs))

\* The events of the tickets channel: ticket 1 is created and deleted,
\* ticket 2 is created with one body, edited to another at any time and
\* deleted; a DELETED event carries the ticket as it was created. One event
\* of ticket 1 is of a type the handlers do not name.
TicketEvents ==
  { Event("ADDED", Ticket(1, 1, "x")), Event("DELETED", Ticket(1, 1, "x")),
    Event("ERROR", Ticket(1, 1, "x")), Event("DELETED", Ticket(2, 1, "x")) }
  \cup {Event("ADDED", Ticket(2, updated_at, "x")) : updated_at \in Stamps}
  \cup {Event("MODIFIED", Ticket(2, updated_at, "y")) : updated_at \in Stamps}

\* The events of the comments channel: comment 1 of ticket 1 and comment 1
\* of ticket 2 are created and deleted, comment 2 of ticket 1 is created,
\* edited at any time and deleted. An id names a comment within its ticket.
\* One event of comment 1 of ticket 1 is of a type the handlers do not name.
CommentEvents ==
  { Event("ADDED", Comment(1, 1, 1, "x")), Event("DELETED", Comment(1, 1, 1, "x")),
    Event("ERROR", Comment(1, 1, 1, "x")),
    Event("ADDED", Comment(2, 1, 1, "x")), Event("DELETED", Comment(2, 1, 1, "x")),
    Event("DELETED", Comment(1, 2, 1, "x")) }
  \cup {Event("ADDED", Comment(1, 2, updated_at, "x")) : updated_at \in Stamps}
  \cup {Event("MODIFIED", Comment(1, 2, updated_at, "y")) : updated_at \in Stamps}

\* What getTickets answers with, data.items.
FetchedTickets ==
  { <<>>,
    <<Ticket(1, 1, "x")>>,
    <<Ticket(1, 1, "x"), Ticket(2, 2, "x")>> }

\* The items of a ticket number in the comments module, none if the module
\* does not hold the number.
Group(all, number) == IF number \in DOMAIN all THEN all[number] ELSE <<>>

\* tickets.js, action subscribed: RECEIVE of the fetched tickets
TicketsSubscribed(items) ==
  /\ ticketsAll' = orderByUpdatedAt(items)
  /\ UNCHANGED commentsAll
  /\ handled' = 1 - handled
  /\ UNCHANGED topicSubscription
  /\ UNCHANGED <<rootVars, clientVars, listVars, queueVars, historyVars>>
  /\ UNCHANGED <<routerVars, dispatcherVars>>

\* tickets.js, action handleEvent: PUT_ITEM, DELETE_ITEM, or the log of a
\* type the switch does not name
TicketsHandleEvent(e) ==
  /\ ticketsAll' = CASE e.type \in {"ADDED", "MODIFIED"} ->
                           ticketsPUT_ITEM(ticketsAll, e.object)
                      [] e.type = "DELETED" ->
                           ticketsDELETE_ITEM(ticketsAll, e.object)
                      [] OTHER -> ticketsAll
  /\ UNCHANGED commentsAll
  /\ handled' = 1 - handled
  /\ UNCHANGED topicSubscription
  /\ UNCHANGED <<rootVars, clientVars, listVars, queueVars, historyVars>>
  /\ UNCHANGED <<routerVars, dispatcherVars>>

\* comments.js, action handleEvent: PUT_ITEM, DELETE_ITEM, or the log of a
\* type the switch does not name
CommentsHandleEvent(e) ==
  /\ commentsAll' = CASE e.type \in {"ADDED", "MODIFIED"} ->
                            commentsPUT_ITEM(commentsAll, e.object)
                       [] e.type = "DELETED" ->
                            commentsDELETE_ITEM(commentsAll, e.object)
                       [] OTHER -> commentsAll
  /\ UNCHANGED ticketsAll
  /\ handled' = 1 - handled
  /\ UNCHANGED topicSubscription
  /\ UNCHANGED <<rootVars, clientVars, listVars, queueVars, historyVars>>
  /\ UNCHANGED <<routerVars, dispatcherVars>>

\* tickets/index.js, commit of HANDLE_EVENTS
TicketsCommitHandleEvents(batch) ==
  /\ ticketsAll' = ticketsHANDLE_EVENTS(ticketsAll, batch)
  /\ UNCHANGED commentsAll
  /\ handled' = 1 - handled
  /\ UNCHANGED topicSubscription
  /\ UNCHANGED <<rootVars, clientVars, listVars, queueVars, historyVars>>
  /\ UNCHANGED <<routerVars, dispatcherVars>>

\* tickets/index.js, action handleEvents: its body is empty
TicketsHandleEvents(batch) ==
  /\ UNCHANGED <<ticketsAll, commentsAll>>
  /\ handled' = 1 - handled
  /\ UNCHANGED topicSubscription
  /\ UNCHANGED <<rootVars, clientVars, listVars, queueVars, historyVars>>
  /\ UNCHANGED <<routerVars, dispatcherVars>>

\* comments/index.js, action handleEvents
CommentsHandleEvents(batch) ==
  /\ commentsAll' = commentsHANDLE_EVENTS(commentsAll, batch)
  /\ UNCHANGED ticketsAll
  /\ handled' = 1 - handled
  /\ UNCHANGED topicSubscription
  /\ UNCHANGED <<rootVars, clientVars, listVars, queueVars, historyVars>>
  /\ UNCHANGED <<routerVars, dispatcherVars>>

\* setSubscription(subscription) of the tickets or of the comments module
\* with an object: SUBSCRIBE, on which the plugin calls subscribeTopic.
TopicSetSubscription(topic, name) ==
  /\ Len(flows) < MaxFlows
  /\ connected => sendBuffer = <<>>
  /\ topicSubscription' = [topicSubscription EXCEPT ![topic] = NewTopicSubscription(topic, name)]
  /\ IF SendsSubscribe(connected)
     THEN /\ Arrive("subscribe", topic, topicSubscription'[topic].filter)
          /\ flows' = Append(flows, TopicFlow(topic, "subscribe", Len(reqs) + 1, "setSubscription"))
     ELSE /\ flows' = Append(flows, TopicFlow(topic, "subscribe", 0, "setSubscription"))
          /\ UNCHANGED routerVars
  /\ UNCHANGED <<ticketsAll, commentsAll, handled>>
  /\ UNCHANGED <<subscription, calls, socketVars>>
  /\ UNCHANGED <<rootVars, listVars, queueVars, historyVars, dispatcherVars>>

\* setSubscription(undefined) of the tickets or of the comments module:
\* UNSUBSCRIBE, on which the plugin's unsubscribeTopic emits 'unsubscribe'.
TopicUnsetSubscription(topic) ==
  /\ Len(flows) < MaxFlows
  /\ connected => sendBuffer = <<>>
  /\ topicSubscription' = [topicSubscription EXCEPT ![topic] = NoSubscription]
  /\ IF connected
     THEN /\ Arrive("unsubscribe", topic, Filter(Null, Null, Null))
          /\ flows' = Append(flows, TopicFlow(topic, "unsubscribe", Len(reqs) + 1, "setSubscription"))
          /\ UNCHANGED sendBuffer
     ELSE /\ flows' = Append(flows, TopicFlow(topic, "unsubscribe", 0, "setSubscription"))
          /\ sendBuffer' = Append(sendBuffer, Len(flows) + 1)
          /\ UNCHANGED routerVars
  /\ UNCHANGED <<ticketsAll, commentsAll, handled>>
  /\ UNCHANGED <<subscription, calls, connected>>
  /\ UNCHANGED <<rootVars, listVars, queueVars, historyVars, dispatcherVars>>

\* What getTickets and getComments answer a subscribed with, data.items.
FetchedItems(topic) ==
  IF topic = "tickets"
  THEN {<<Ticket(1, 1, "x"), Ticket(2, 2, "x")>>}
  ELSE {<<Comment(1, 1, 1, "x"), Comment(1, 2, 2, "x")>>}

\* comments/index.js, mutation RECEIVE: groupBy(orderByUpdatedAt(items),
\* 'metadata.number')
commentsRECEIVE(items) ==
  [number \in {items[i].number : i \in 1..Len(items)} |->
     SelectSeq(orderByUpdatedAt(items), LAMBDA item : item.number = number)]

\* subscribed of the tickets and of the comments module, the API has
\* answered: RECEIVE of the items.
TopicLoaded(i, items) ==
  /\ flows[i].pc = "loading"
  /\ flows[i].topic # "shoots"
  /\ flows' = [flows EXCEPT ![i].pc = "done"]
  /\ IF flows[i].topic = "tickets"
     THEN /\ ticketsAll' = orderByUpdatedAt(items)
          /\ UNCHANGED commentsAll
     ELSE /\ commentsAll' = commentsRECEIVE(items)
          /\ UNCHANGED ticketsAll
  /\ UNCHANGED <<topicSubscription, handled>>
  /\ UNCHANGED <<subscription, calls, socketVars>>
  /\ UNCHANGED <<rootVars, listVars, queueVars, historyVars>>
  /\ UNCHANGED <<routerVars, dispatcherVars>>

\* unsubscribed and clearAll of the tickets and of the comments module:
\* CLEAR_ALL
TopicClearAll(topic) ==
  /\ IF topic = "tickets"
     THEN /\ ticketsAll' = <<>>
          /\ UNCHANGED commentsAll
     ELSE /\ commentsAll' = NoComments
          /\ UNCHANGED ticketsAll
  /\ handled' = 1 - handled
  /\ UNCHANGED topicSubscription
  /\ UNCHANGED <<rootVars, clientVars, listVars, queueVars, historyVars>>
  /\ UNCHANGED <<routerVars, dispatcherVars>>

\* The round trips of the three topics on a socket that connects and loses
\* its connection; the pages subscribe and unsubscribe between the calls,
\* every request is acknowledged in time unless the connection is lost, and
\* the API answers or rejects the loads of the tickets and of the comments.
NextReconnect ==
  \/ Connect \/ Flush \/ Disconnect
  \/ \E i \in 1..Len(reqs) : \E room \in reqs[i].leaving : LeaveDone(i, room)
  \/ \E i \in 1..Len(reqs) : Resume(i)
  \/ \E i \in 1..Len(reqs) : JoinDone(i)
  \/ \E i \in 1..Len(flows) : AckReceived(i)
  \/ PagesQuiet /\ TopicSetSubscription("comments", "a")
  \/ PagesQuiet /\ TopicUnsetSubscription("tickets")
  \/ \E i \in 1..Len(flows) : \E items \in FetchedItems(flows[i].topic) :
       TopicLoaded(i, items)
  \/ \E i \in 1..Len(flows) : flows[i].topic # "shoots" /\ Rejected(i)

\* The batches of events of a channel.
TicketBatches == SeqsUpTo(TicketEvents, MaxBatch) \ {<<>>}

\* The batches committed to the tickets mutation: any event, alone or
\* followed by later edits of ticket 2.
CommittedBatches ==
  {<<e>> \o rest : e \in TicketEvents,
     rest \in SeqsUpTo({Event("MODIFIED", Ticket(2, MaxStamp, "y"))}, MaxBatch - 1)}

CommentBatches == SeqsUpTo(CommentEvents, MaxBatch) \ {<<>>}

\* The modules that handle one event at a time, and the commit of the
\* tickets mutation over a batch.
NextIssues ==
  \/ \E items \in FetchedTickets : TicketsSubscribed(items)
  \/ \E e \in TicketEvents : TicketsHandleEvent(e)
  \/ \E e \in CommentEvents : CommentsHandleEvent(e)
  \/ \E batch \in CommittedBatches : TicketsCommitHandleEvents(batch)
  \/ \E topic \in {"tickets", "comments"} : TopicClearAll(topic)

\* The modules that are handed batches of events.
NextIssueBatches ==
  \/ \E items \in FetchedTickets : TicketsSubscribed(items)
  \/ \E batch \in TicketBatches : TicketsHandleEvents(batch)
  \/ \E batch \in CommentBatches : CommentsHandleEvents(batch)

\* Every key of the events of the model.
EngineKeys == {getKey(e.object) : e \in ThrottleEvents \cup QueueEvents \cup BatchEvents}

\* The sort parameters the list view has set, or not yet.
SortChoices ==
  { NoSortParams,
    [sortBy |-> "name", sortDesc |-> FALSE],
    [sortBy |-> "purpose", sortDesc |-> TRUE] }

\* The store after construction, with a namespace chosen (setNamespace) and
\* the issues-only switch of the list view as the user has left it, before
\* the socket has connected or after that, before the list view has set its
\* filters or after that, with no shoots or with a list of
\* shoots as RECEIVE and updateSortedShoots leave it, with no subscription
\* or with the subscriptions the pages have stored; the calls of the plugin
\* that have ended are not kept.
InitEngine ==
  /\ rootNamespace \in {"foo", "_all"}
  /\ onlyShootsWithIssues \in BOOLEAN
  /\ subscription \in {NoSubscription, NewSubscription(Null)}
  /\ flows = <<>>
  /\ calls = <<>>
  /\ connected \in BOOLEAN
  /\ sendBuffer = <<>>
  /\ sortParams \in SortChoices
  /\ searchValue = NoSearchValue
  /\ shootListFilters \in {NoFilters, [NoFilters EXCEPT !.set = TRUE]}
  /\ shoots \in {keyBy(items) : items \in ListChoices \cup SortLists}
  /\ sortedShoots = getSortedKeys(shoots, sortParams)
  /\ filteredShoots = getFilteredKeys(shoots, sortedShoots, searchValue, shootListFilters)
  /\ sortRequired = FALSE
  /\ events = <<>>
  /\ now = 0
  /\ throttle = [lastCallTime |-> Undefined, lastInvokeTime |-> 0,
                 timerId |-> Undefined, lastArgs |-> FALSE]
  /\ lastType = [key \in EngineKeys |-> "none"]
  /\ burst = NoBurst
  /\ passes = <<>>
  /\ lastPass = NoPass
  /\ cleared = FALSE
  /\ ticketsAll = <<>>
  /\ commentsAll = NoComments
  /\ topicSubscription \in
       { [tickets |-> forTickets, comments |-> forComments] :
           forTickets \in {NoSubscription, NewTopicSubscription("tickets", Null)},
           forComments \in {NoSubscription, NewTopicSubscription("comments", "a")} }
  /\ handled = 0

(***************************************************************************)
(* Specifications                                                          *)
(***************************************************************************)
Init == InitRouter /\ InitDispatcher /\ InitEngine

Next ==
  \/ NextRouter \/ NextDispatcher \/ NextThrottle \/ NextQueue \/ NextBatch
  \/ NextRoundTrip \/ NextClient \/ NextSocket \/ NextEmit \/ NextList
  \/ NextIssues \/ NextIssueBatches \/ NextResort \/ NextRefilter
  \/ NextLoad \/ NextView \/ NextLatency \/ NextSort \/ NextScopes \/ NextReconnect \/ NextDelivery

Spec == Init /\ [][Next]_vars

\* The list view of one namespace, the issues-only switch at its default,
\* the sort parameters not set.
InitUnsorted ==
  /\ rooms = {SocketId}
  /\ subscription = NoSubscription
  /\ topicSubscription = NoTopicSubscription
  /\ shootListFilters = NoFilters
  /\ Init
  /\ connected = FALSE
  /\ shoots = <<>>
  /\ rootNamespace = "foo"
  /\ onlyShootsWithIssues = TRUE
  /\ sortParams = NoSortParams

\* The same, the socket connected or not.
InitEmit ==
  /\ rooms = {SocketId}
  /\ subscription = NoSubscription
  /\ topicSubscription = NoTopicSubscription
  /\ shootListFilters = NoFilters
  /\ Init
  /\ user = FooUser
  /\ shoots = <<>>
  /\ rootNamespace = "foo"
  /\ onlyShootsWithIssues = TRUE
  /\ sortParams = NoSortParams

\* The list view of one namespace, sorted by name.
InitByName ==
  /\ rooms = {SocketId}
  /\ subscription = NoSubscription
  /\ topicSubscription = NoTopicSubscription
  /\ shootListFilters = NoFilters
  /\ Init
  /\ connected = FALSE
  /\ shoots = <<>>
  /\ rootNamespace = "foo"
  /\ onlyShootsWithIssues = TRUE
  /\ sortParams = [sortBy |-> "name", sortDesc |-> FALSE]

\* The same list view, of one namespace or of all namespaces.
InitQueue ==
  /\ rooms = {SocketId}
  /\ subscription = NoSubscription
  /\ topicSubscription = NoTopicSubscription
  /\ shootListFilters = NoFilters
  /\ Init
  /\ connected = FALSE
  /\ shoots = <<>>
  /\ onlyShootsWithIssues = TRUE
  /\ sortParams = [sortBy |-> "name", sortDesc |-> FALSE]

\* The list view of one namespace, sorted by purpose, downwards.
InitByPurpose ==
  /\ rooms = {SocketId}
  /\ subscription = NoSubscription
  /\ topicSubscription = NoTopicSubscription
  /\ shootListFilters = NoFilters
  /\ Init
  /\ connected = FALSE
  /\ shoots = <<>>
  /\ rootNamespace = "foo"
  /\ onlyShootsWithIssues = TRUE
  /\ sortParams = [sortBy |-> "purpose", sortDesc |-> TRUE]

\* The list view of a namespace or of all namespaces, the sort parameters
\* not set, the socket connected.
InitAnyNamespace ==
  /\ rooms = {SocketId}
  /\ subscription = NoSubscription
  /\ topicSubscription = NoTopicSubscription
  /\ shootListFilters = NoFilters
  /\ Init
  /\ connected = TRUE
  /\ shoots = <<>>
  /\ sortParams = NoSortParams

\* The list view of a namespace or of all namespaces of the admin, the sort
\* parameters not set, the socket connected.
InitLoad ==
  /\ rooms = {SocketId}
  /\ subscription = NoSubscription
  /\ topicSubscription = NoTopicSubscription
  /\ shootListFilters = NoFilters
  /\ Init
  /\ user = AdminUser
  /\ connected = TRUE
  /\ shoots = <<>>
  /\ sortParams = NoSortParams

\* The list view of one namespace with the issues-only switch on, its
\* filters set and all of them off, the sort parameters not set, the socket
\* connected.
InitView ==
  /\ rooms = {SocketId}
  /\ subscription = NoSubscription
  /\ topicSubscription = NoTopicSubscription
  /\ shootListFilters = [NoFilters EXCEPT !.set = TRUE]
  /\ Init
  /\ user = AdminUser
  /\ connected = TRUE
  /\ shoots = <<>>
  /\ rootNamespace = "foo"
  /\ onlyShootsWithIssues = TRUE
  /\ sortParams = NoSortParams

\* The list view of a namespace or of all namespaces with a list of shoots
\* loaded, the issues-only switch at its default, the sort parameters not
\* set.
InitList ==
  /\ rooms = {SocketId}
  /\ subscription = NoSubscription
  /\ topicSubscription = NoTopicSubscription
  /\ shootListFilters = NoFilters
  /\ Init
  /\ user = AdminUser
  /\ connected = TRUE
  /\ onlyShootsWithIssues = TRUE
  /\ shoots \in {keyBy(items) : items \in ListChoices \ {<<>>}}
  /\ sortParams = NoSortParams

\* The list view of a namespace or of all namespaces, the issues-only switch
\* on or off, with a list of shoots loaded, the sort parameters not set.
InitScopes ==
  /\ rooms = {SocketId}
  /\ subscription = NoSubscription
  /\ topicSubscription = NoTopicSubscription
  /\ shootListFilters = NoFilters
  /\ Init
  /\ user = AdminUser
  /\ connected = TRUE
  /\ shoots \in {keyBy(items) : items \in ListChoices \ {<<>>}}
  /\ sortParams = NoSortParams

\* The list view of one namespace, sorted by name, on a connected socket
\* that is in the room of the shoots of the namespace.
InitDelivery ==
  /\ user = FooUser
  /\ rooms = {SocketId, "subs://shoots/namespace/foo/all-clusters"}
  /\ rootNamespace = "foo"
  /\ onlyShootsWithIssues = TRUE
  /\ subscription = NewSubscription(Null)
  /\ topicSubscription = NoTopicSubscription
  /\ shootListFilters = NoFilters
  /\ Init
  /\ connected = TRUE
  /\ shoots = <<>>
  /\ sortParams = [sortBy |-> "name", sortDesc |-> FALSE]

\* A socket of the admin in the rooms of no, some or all topics.
InitJoined ==
  /\ user = AdminUser
  /\ subscription = NoSubscription
  /\ topicSubscription = NoTopicSubscription
  /\ shootListFilters = NoFilters
  /\ Init
  /\ connected = FALSE
  /\ shoots = <<>>
  /\ rootNamespace = "foo"
  /\ onlyShootsWithIssues = TRUE
  /\ sortParams = NoSortParams

\* The list view of one namespace of a member of its project, the socket
\* not connected, the sort parameters not set.
InitSocket ==
  /\ user = FooUser
  /\ rooms = {SocketId}
  /\ subscription = NoSubscription
  /\ topicSubscription = NoTopicSubscription
  /\ shootListFilters = NoFilters
  /\ Init
  /\ connected = FALSE
  /\ shoots = <<>>
  /\ rootNamespace = "foo"
  /\ onlyShootsWithIssues = TRUE
  /\ sortParams = NoSortParams

\* The list view of one namespace, the socket not connected, the pages with
\* or without a subscription to each topic.
InitReconnect ==
  /\ user = AdminUser
  /\ rooms = {SocketId}
  /\ connected = FALSE
  /\ shoots = <<>>
  /\ rootNamespace = "foo"
  /\ onlyShootsWithIssues = TRUE
  /\ sortParams = NoSortParams
  /\ shootListFilters = NoFilters
  /\ Init

\* The list view of a namespace with a list of shoots loaded, the sort
\* parameters not set.
InitSort ==
  /\ rooms = {SocketId}
  /\ subscription = NoSubscription
  /\ topicSubscription = NoTopicSubscription
  /\ shootListFilters = NoFilters
  /\ Init
  /\ connected = FALSE
  /\ rootNamespace = "foo"
  /\ onlyShootsWithIssues = TRUE
  /\ shoots \in {keyBy(items) : items \in SortLists}
  /\ sortParams = NoSortParams

SpecRouter == InitUnsorted /\ [][NextRouter]_vars

\* The shoots watch and a client that has subscribed to the shoots of a
\* namespace.
SpecDelivery == InitDelivery /\ [][NextDelivery]_vars

\* The router of a socket that is in rooms already.
SpecUnsubscribe == InitJoined /\ [][NextRouter]_vars

SpecDispatcher == InitUnsorted /\ [][NextDispatcher]_vars

\* The queue engine under a burst of events.
SpecThrottle == InitByName /\ [][NextThrottle]_vars

\* The queue engine under events of several versions, in the list view of
\* one namespace and in the issues-only view of all namespaces.
SpecQueue == InitQueue /\ [][NextQueue]_vars

\* The queue engine with its subscription in force: a due timer fires and
\* time passes.
SpecLatency ==
  /\ InitByName
  /\ [][NextLatency]_vars
  /\ WF_vars(TimerExpired)
  /\ WF_vars(Tick(ThrottleWait \div 2))

\* The batch engine.
SpecBatch == InitByPurpose /\ [][NextBatch]_vars

\* The batch engine under events that change the sort value of a shoot.
SpecResort == InitByPurpose /\ [][NextResort]_vars

\* The batch engine, sorted by name, under events that change what the
\* search of the list view reads.
SpecRefilter == InitByName /\ [][NextRefilter]_vars

\* The list of a namespace or of all namespaces loads while events arrive
\* and the subscription is replaced.
SpecLoad == InitLoad /\ [][NextLoad]_vars

\* The list of a namespace loads and the view goes over to the issues-only
\* view of all namespaces, where it is cleared, sorted, searched and
\* filtered while the events of the namespace still arrive.
SpecView == InitView /\ [][NextView]_vars

\* The emit calls of the socket plugin.
SpecEmit == InitEmit /\ [][NextEmit]_vars

\* A client whose socket connects and loses its connection, and the router.
SpecSocket == InitSocket /\ [][NextSocket]_vars

\* The list view over a loaded list.
SpecList == InitList /\ [][NextList]_vars

\* The list view filters a loaded list, in every scope.
SpecScopes == InitScopes /\ [][NextScopes]_vars

\* The socket connects and loses its connection, with or without a stored
\* subscription of each topic, while the pages subscribe to the comments and
\* unsubscribe from the tickets.
SpecReconnect == InitReconnect /\ [][NextReconnect]_vars

\* The list view sorts a loaded list.
SpecSort == InitSort /\ [][NextSort]_vars

\* The tickets and the comments modules under single events.
SpecIssues == InitUnsorted /\ [][NextIssues]_vars

\* The tickets and the comments modules under batches of events.
SpecIssueBatches == InitUnsorted /\ [][NextIssueBatches]_vars

\* A client, its store and the router.
SpecRoundTrip == InitAnyNamespace /\ [][NextClient]_vars

(***************************************************************************)
(* Claims: subscription router                                             *)
(***************************************************************************)
\* The shoots rooms (other than its own-id room) the socket is in.
TopicRooms(topic) ==
  {room \in rooms : room # SocketId /\ StartsWith(room, "subs://" \o topic)}

\* C8: whatever the interleaving of the subscribe requests of one socket, the
\* socket is never in rooms of two different subscriptions of one topic. A
\* subscription of this router joins one room, so two rooms of a topic are
\* the rooms of two subscriptions.
C8_OneSubscriptionPerTopic ==
  \A topic \in Topics : Cardinality(TopicRooms(topic)) <= 1

\* The user is no member of the project of the namespace (read from the
\* project list, not from the router's check).
NotMember(namespace) ==
  /\ ~user.isAdmin
  /\ \A p \in projectList : p.namespace = namespace => user.id \notin p.members

IsNonMemberShootsSubscribe(r) ==
  /\ r.op = "subscribe"
  /\ r.topic = "shoots"
  /\ r.namespace # Null
  /\ NotMember(r.namespace)

\* C9: a non-admin user who subscribes to shoots of a namespace of whose
\* project they are no member is acknowledged with an error, and the request
\* never calls socket.join.
C9_NonMemberRejectedWithoutJoin ==
  \A i \in 1..Len(reqs) :
    IsNonMemberShootsSubscribe(reqs[i]) =>
      /\ reqs[i].pc # "joining"
      /\ reqs[i].joining = Null
      /\ reqs[i].pc = "acked" => reqs[i].error = "Forbidden"

\* C9 witness: such a request has been acknowledged.
C9_Witness ==
  \E i \in 1..Len(reqs) :
    /\ IsNonMemberShootsSubscribe(reqs[i])
    /\ reqs[i].pc = "acked"

\* C10: a shoots subscribe that fails with an authorization error leaves the
\* socket's rooms as they were when the request arrived (stated for a request
\* no other request overlaps with).
C10_ForbiddenLeavesRoomsUntouched ==
  \A i \in 1..Len(reqs) :
    ( /\ i = Len(reqs)
      /\ reqs[i].solo
      /\ reqs[i].op = "subscribe"
      /\ reqs[i].topic = "shoots"
      /\ reqs[i].pc = "acked"
      /\ reqs[i].error = "Forbidden" ) => rooms = reqs[i].before

\* The room the filter of a shoots subscription names: one cluster, the
\* clusters of one namespace, or the clusters of all namespaces.
FilterRoom(r) ==
  IF r.namespace # Null /\ r.name # Null
  THEN "subs://shoots/namespace/" \o r.namespace \o "/cluster/" \o r.name
  ELSE IF r.namespace # Null
  THEN "subs://shoots/namespace/" \o r.namespace \o "/all-clusters"
  ELSE "subs://shoots/all-namespaces/all-clusters"

\* The latest request is a shoots subscribe that was acknowledged without
\* error, every request has been answered, and the socket has asked for
\* nothing but shoots, all of them and not the unhealthy ones only.
IsSuccessfulShootsSubscribe(i) ==
  /\ i = Len(reqs)
  /\ AllAcked
  /\ \A j \in 1..Len(reqs) : reqs[j].topic = "shoots"
  /\ reqs[i].op = "subscribe"
  /\ reqs[i].unhealthy = Null
  /\ reqs[i].error = Null

\* C12: after a successful shoots subscribe the rooms of the socket are its
\* own-id room and the one room of the filter: the cluster's room for
\* (namespace, name), the namespace's all-clusters room for a namespace, the
\* all-namespaces all-clusters room for an admin without namespace.
C12_RoomsAreOwnIdAndFilterRoom ==
  \A i \in 1..Len(reqs) :
    IsSuccessfulShootsSubscribe(i) => rooms = {SocketId, FilterRoom(reqs[i])}

\* A non-admin has subscribed to shoots without a namespace and has been
\* answered.
IsMemberAllNamespacesSubscribe(i) ==
  /\ ~user.isAdmin
  /\ reqs[i].op = "subscribe"
  /\ reqs[i].topic = "shoots"
  /\ reqs[i].namespace = Null
  /\ reqs[i].pc = "acked"

\* The all-clusters rooms of the namespaces of the projects of a user.
MemberRooms(u) ==
  {"subs://shoots/namespace/" \o namespace \o "/all-clusters" :
     namespace \in {n \in Namespaces : isMemberOfNamespace(u, n)}}

\* C13: a non-admin who subscribes to shoots without a namespace is answered
\* without error and is then in the all-clusters rooms of the namespaces of
\* the user's projects and in no other shoots room.
C13_MemberJoinsOwnNamespaces ==
  \A i \in 1..Len(reqs) :
    (IsMemberAllNamespacesSubscribe(i) /\ i = Len(reqs) /\ reqs[i].solo) =>
      /\ reqs[i].error = Null
      /\ {room \in rooms : StartsWith(room, "subs://shoots")} = MemberRooms(user)

(***************************************************************************)
(* Claims: shoots watch dispatcher                                         *)
(***************************************************************************)
\* The rooms a client that subscribes to shoots with unhealthy = true joins.
UnhealthySubscriberRooms ==
  {subscribeShootsAllNamespaces(AdminUser, TRUE).room}

\* The rooms that received, before event i, an event of the object of uid
\* while it had an issue.
EarlierIssueRooms(i, uid) ==
  { e.room : e \in UNION { dispatched[j].emits : j \in
      { k \in 1..(i - 1) : /\ dispatched[k].event.object.uid = uid
                           /\ shootHasIssue(dispatched[k].event.object) } } }

IsResolvingEvent(d) ==
  /\ d.event.type = "MODIFIED"
  /\ d.tracked
  /\ ~shootHasIssue(d.event.object)

\* C2: a MODIFIED event without issue of an object whose uid is tracked makes
\* the dispatcher emit a synthetic DELETED event of the object to the rooms
\* of the unhealthy-only subscribers, which are the rooms that received the
\* object's earlier events with an issue, and not the MODIFIED event.
C2_ResolvedIssueEmitsDeleted ==
  \A i \in 1..Len(dispatched) :
    IsResolvingEvent(dispatched[i]) =>
      \A room \in UnhealthySubscriberRooms \cup
                  (EarlierIssueRooms(i, dispatched[i].event.object.uid)
                     \ ShootRooms(dispatched[i].event.object)) :
        /\ [room |-> room, channel |-> "shoots",
            event |-> Event("DELETED", dispatched[i].event.object)]
             \in dispatched[i].emits
        /\ [room |-> room, channel |-> "shoots", event |-> dispatched[i].event]
             \notin dispatched[i].emits

\* C14: every change event of an object with an issue, the first one of its
\* uid and the later ones, is delivered to a room that an admin whose shoots
\* subscription is all-namespaces with unhealthy = true is a member of.
C14_IssueEventsReachUnhealthySubscriber ==
  \A i \in 1..Len(dispatched) :
    shootHasIssue(dispatched[i].event.object) =>
      \E e \in dispatched[i].emits :
        /\ e.room \in UnhealthySubscriberRooms
        /\ e.event = dispatched[i].event

\* The uids the dispatcher has seen, and the last event of each.
DispatchedUids == {dispatched[i].event.object.uid : i \in 1..Len(dispatched)}

LastDispatched(uid) ==
  dispatched[CHOOSE i \in 1..Len(dispatched) :
               /\ dispatched[i].event.object.uid = uid
               /\ \A j \in (i + 1)..Len(dispatched) :
                    dispatched[j].event.object.uid # uid].event

\* C20: after any sequence of change events the issue-tracking set holds
\* exactly the uids of the objects that are not deleted and whose last event
\* had an issue; no uid is in the set after a DELETED event of it.
C20_TrackedAreLiveUidsWithIssue ==
  shootsWithIssues =
    {uid \in DispatchedUids :
       /\ LastDispatched(uid).type # "DELETED"
       /\ shootHasIssue(LastDispatched(uid).object)}

\* A room of the subscribers that want the objects with an issue only.
EndsWith(room, suffix) ==
  /\ Len(room) >= Len(suffix)
  /\ SubSeq(room, Len(room) - Len(suffix) + 1, Len(room)) = suffix

IsHealthRoom(room) ==
  \/ EndsWith(room, "/unhealthy-clusters")
  \/ EndsWith(room, "/unhealthy")

\* The exact-resource room, the namespace all-clusters room and the
\* all-namespaces all-clusters room of an object.
NonHealthRooms(object) ==
  { "subs://shoots/namespace/" \o object.namespace \o "/cluster/" \o object.name,
    "subs://shoots/namespace/" \o object.namespace \o "/all-clusters",
    "subs://shoots/all-namespaces/all-clusters" }

\* C21: for every change event, of any type, with or without an issue, of a
\* tracked or an untracked uid, what the dispatcher emits to rooms other than
\* the health rooms is the original event, unchanged, on the channel
\* 'shoots', to exactly the exact-resource room, the namespace all-clusters
\* room and the all-namespaces all-clusters room of the object.
C21_OriginalEventToThreeRooms ==
  \A i \in 1..Len(dispatched) :
    {e \in dispatched[i].emits : ~IsHealthRoom(e.room)}
      = {[room |-> room, channel |-> "shoots", event |-> dispatched[i].event] :
           room \in NonHealthRooms(dispatched[i].event.object)}

\* Events of all three types were dispatched, one of them of a tracked uid
\* that has no issue any more, one of an object with an issue.
C21_Witness ==
  /\ {dispatched[i].event.type : i \in 1..Len(dispatched)} = EventTypes
  /\ \E i \in 1..Len(dispatched) :
       dispatched[i].tracked /\ ~shootHasIssue(dispatched[i].event.object)
  /\ \E i \in 1..Len(dispatched) :
       ~dispatched[i].tracked /\ shootHasIssue(dispatched[i].event.object)

(***************************************************************************)
(* Claims: list-state engine                                               *)
(***************************************************************************)
\* The keys whose last event handed to the engine was not DELETED.
NetKeys == {key \in DOMAIN lastType : lastType[key] \notin {"none", "DELETED"}}

\* C1: after any sequence of ADDED/MODIFIED/DELETED events applied to an
\* initially empty collection, the key set of state.shoots is exactly the
\* set of keys whose last event was not DELETED.
C1_KeySetIsNetExistence == Keys(shoots) = NetKeys

\* C3: an ADDED/MODIFIED event for a stored key whose resourceVersion is not
\* newer than the stored one is dropped: every key that a pass met only with
\* such events holds the object it held before the pass.
C3_NotNewerIsDropped == lastPass.notNewer \subseteq lastPass.unchanged

\* C3, as the code has it: an ADDED/MODIFIED event for a stored key whose
\* resourceVersion equals the stored one is dropped: every key that a pass
\* met only with such events holds the object it held before the pass. An
\* event of any other resourceVersion, older or newer, is applied: the key
\* holds the properties of the event's object over those it held; unless
\* the list is the issues-only view of all namespaces and the event's object
\* has no issue: then the event is skipped and the key holds what it held.
C3_OnlyTheSameVersionIsDropped ==
  /\ lastPass.repeats \subseteq lastPass.unchanged
  /\ lastPass.others \ lastPass.skipped \subseteq lastPass.taken
  /\ lastPass.skipped \subseteq lastPass.kept

\* A pass has met a stored key with an event of the stored version.
C3_Witness == lastPass.repeats # {}

\* C4: a pass that brings nothing but MODIFIED events repeating the stored
\* resourceVersion of their keys leaves the collection as it was and asks for
\* no re-sort.
C4_RepeatedModifiedIsNoOp ==
  lastPass.duplicate => ~lastPass.changed /\ ~lastPass.flagged

\* handleEvents has run on a batch of nothing but repeated MODIFIED events.
C4_Witness == lastPass.duplicate /\ shoots # <<>>

\* Three events for three keys, each within one tick (500 ms) of the one
\* before, the first of them handed to the engine as constructed.
BurstOfThree ==
  /\ Len(burst.times) = 3
  /\ Cardinality(burst.keys) = 3
  /\ \A i \in 1..2 : burst.times[i + 1] - burst.times[i] <= TickMs

\* The passes that re-sorted and re-filtered.
SortPasses == {i \in 1..Len(passes) : passes[i].sorted}

\* Nothing is queued and no timer is pending.
Idle == events = <<>> /\ throttle.timerId = Undefined

\* C6: three events for distinct keys within 500 ms of each other cause
\* exactly one re-sort/re-filter pass, and no such pass happens earlier than
\* one throttle window after the first event.
C6_OnePassAfterTheWindow ==
  BurstOfThree =>
    /\ \A i \in SortPasses : passes[i].at >= burst.times[1] + ThrottleWait
    /\ Idle => Cardinality(SortPasses) = 1

\* C7: once unsubscribed/clearAll has run, the collection and the sorted
\* and filtered key sequences are empty and stay empty (until data is loaded
\* or a new event is handed over), whatever was queued before the clear.
C7_ClearedStaysEmpty ==
  cleared => shoots = <<>> /\ sortedShoots = <<>> /\ filteredShoots = <<>>

\* C15: every event handed to handleEvent is applied to the collection
\* before handleEvent returns (only the sorting waits for the throttle): no
\* event is left waiting in the queue of the engine.
C15_EventsAppliedOnHandling == events = <<>>

\* C24: whenever a pass over events has completed, the sorted key sequence
\* is the full sort of the current collection under the active sort column
\* and direction: a re-sort is skipped only for updates that cannot change
\* the order.
C24_SortedIsFullSortAfterPass ==
  sortedShoots = getSortedKeys(shoots, sortParams)

(***************************************************************************)
(* Claims: list view                                                       *)
(***************************************************************************)
\* The object has failed: its last operation has, or it carries errors.
HasFailed(item) == item.lastOperation.state = "Failed" \/ item.lastErrors # <<>>

\* The object has an operation in progress.
InProgress(item) ==
  /\ item.lastOperation.progress \notin {0, 100}
  /\ item.lastOperation.state # "Failed"

\* The place of a key in the sorted key sequence.
SortedPlace(key) == CHOOSE i \in 1..Len(sortedShoots) : sortedShoots[i] = key

\* Sorted upwards by lastOperation, every object of the keys of the first
\* set stands before every object of the second.
StandBefore(first, second) ==
  sortParams = [sortBy |-> "lastOperation", sortDesc |-> FALSE] =>
    \A a \in first : \A b \in second : SortedPlace(a) < SortedPlace(b)

DeactivatedFailed ==
  {getKey(shoots[i]) : i \in {k \in 1..Len(shoots) :
     isReconciliationDeactivated(shoots[k]) /\ HasFailed(shoots[k])}}

DeactivatedNotFailed ==
  {getKey(shoots[i]) : i \in {k \in 1..Len(shoots) :
     isReconciliationDeactivated(shoots[k]) /\ ~HasFailed(shoots[k])}}

ActiveInProgress ==
  {getKey(shoots[i]) : i \in {k \in 1..Len(shoots) :
     ~isReconciliationDeactivated(shoots[k]) /\ InProgress(shoots[k])}}

\* C18: sorted upwards by lastOperation, a reconciliation-deactivated failed
\* object stands before a reconciliation-deactivated object that has not
\* failed, and both stand before every object that is not deactivated and
\* has an operation in progress, with errors or without.
C18_DeactivatedBeforeInProgress ==
  /\ StandBefore(DeactivatedFailed, DeactivatedNotFailed)
  /\ StandBefore(DeactivatedFailed \cup DeactivatedNotFailed, ActiveInProgress)

\* The texts of an object that the search reads, as the claim lists them.
SearchedTexts(item) ==
  { item.name, item.providerType \o " " \o item.region, item.seedName,
    getProjectName(item), getCreatedBy(item), item.purpose, item.k8sVersion,
    join(ticketLabels(item)) } \ {Null}

\* A token is a part of a text, letter by letter, from some place of it on.
IsPartOf(token, text) ==
  \E from \in 1..(Len(text) + 1) :
    /\ from + Len(token) - 1 <= Len(text)
    /\ \A i \in 1..Len(token) :
         SubSeq(text, from + i - 1, from + i - 1) = SubSeq(token, i, i)

\* A token of the search value is a part of a text of the object.
TokenMatches(item) ==
  \E i \in 1..Len(searchValue) : \E text \in SearchedTexts(item) :
    IsPartOf(searchValue[i], text)

FilteredKeySet == {filteredShoots[i] : i \in 1..Len(filteredShoots)}

\* The example of the claim: the shoots prod-1 and dev-1 on aws.
IsProdAndDev == Keys(shoots) = {"foo/prod-1", "foo/dev-1"}

\* C19: with a search value set, a key of the sorted key sequence is in the
\* filtered key sequence iff a search token is a case-sensitive part of the
\* object's name, infrastructure, seed, project, creator, purpose, Kubernetes
\* version or ticket labels; 'prod' over prod-1 and dev-1 on aws keeps
\* prod-1 only, 'aws' keeps both.
C19_FilteredIffTokenMatches ==
  searchValue # NoSearchValue =>
    /\ \A k \in 1..Len(shoots) :
         getKey(shoots[k]) \in FilteredKeySet <=> TokenMatches(shoots[k])
    /\ (IsProdAndDev /\ searchValue = <<"prod">>) => FilteredKeySet = {"foo/prod-1"}
    /\ (IsProdAndDev /\ searchValue = <<"aws">>) => FilteredKeySet = Keys(shoots)

\* The object passes the filters of the list view that are in effect: those
\* switched on, in the issues-only view of all namespaces.
PassesFilters(item) ==
  (rootNamespace = "_all" /\ onlyShootsWithIssues) =>
    /\ shootListFilters.progressing => ~item.progressing
    /\ shootListFilters.userIssues =>
         \A i \in 1..Len(item.lastErrors) : item.lastErrors[i] \notin UserErrorCodes
    /\ shootListFilters.deactivatedReconciliation => ~item.ignore
    /\ shootListFilters.hideTicketsWithLabel => HasTicketToShow(item)

\* No filter of the list view is in effect.
NoFilterInEffect ==
  \/ ~(rootNamespace = "_all" /\ onlyShootsWithIssues)
  \/ shootListFilters \in {NoFilters, [NoFilters EXCEPT !.set = TRUE]}

\* C19, as the code has it: with a search value set, a key of the sorted key
\* sequence is in the filtered key sequence iff a search token is a
\* case-sensitive part of one of these texts of the object and the object
\* passes the filters of the list view that are in effect; with no filter in
\* effect, 'prod' over prod-1 and dev-1 on aws keeps prod-1 only and 'aws'
\* keeps both.
C19_FilteredIffTokenMatchesAndPasses ==
  searchValue # NoSearchValue =>
    /\ \A k \in 1..Len(shoots) :
         getKey(shoots[k]) \in FilteredKeySet
           <=> (TokenMatches(shoots[k]) /\ PassesFilters(shoots[k]))
    /\ (NoFilterInEffect /\ IsProdAndDev /\ searchValue = <<"prod">>)
         => FilteredKeySet = {"foo/prod-1"}
    /\ (NoFilterInEffect /\ IsProdAndDev /\ searchValue = <<"aws">>)
         => FilteredKeySet = Keys(shoots)

\* The search for 'prod' over prod-1 and dev-1 has kept prod-1 and dropped
\* dev-1.
C19_Witness ==
  /\ IsProdAndDev
  /\ searchValue = <<"prod">>
  /\ filteredShoots = <<"foo/prod-1">>

(***************************************************************************)
(* Claims: subscription round trip                                         *)
(***************************************************************************)
\* The client has subscribed to the shoots of a namespace, the subscription
\* was granted and its flow has ended; only then it has unsubscribed, and
\* that flow has ended too.
RoundTripDone ==
  /\ Len(flows) = 2
  /\ flows[1].op = "subscribe" /\ flows[2].op = "unsubscribe"
  /\ \A i \in 1..2 : flows[i].pc = "done" /\ flows[i].req # 0
  /\ reqs[flows[1].req].namespace # Null
  /\ reqs[flows[1].req].error = Null
  /\ flows[2].quiet

\* C5: after subscribing to the shoots of a namespace and unsubscribing, the
\* server socket is in no room but its own-id room, and the client's
\* collection and sorted and filtered key sequences are empty.
C5_RoundTripLeavesNothing ==
  RoundTripDone =>
    /\ rooms = {SocketId}
    /\ shoots = <<>> /\ sortedShoots = <<>> /\ filteredShoots = <<>>

\* The calls of subscribeTopic/unsubscribeTopic that setSubscription made.
SetSubscriptionCalls == {i \in 1..Len(flows) : flows[i].origin = "setSubscription"}

\* The call has put a request on the socket: one that has reached the router
\* or one that the socket keeps until it connects.
HasRequest(i) ==
  \/ flows[i].req # 0
  \/ \E j \in 1..Len(sendBuffer) : sendBuffer[j] = i

\* The request of a call is one of its own, of its kind.
OwnRequest(i) ==
  flows[i].req # 0 =>
    /\ reqs[flows[i].req].op = flows[i].op
    /\ \A j \in 1..Len(flows) : j # i => flows[j].req # flows[i].req

\* C16: every call of setSubscription puts exactly one request on the
\* socket, a 'subscribe' for a descriptor and an 'unsubscribe' for none, and
\* no two calls share a request.
C16_OneRequestPerCall ==
  \A i \in SetSubscriptionCalls : HasRequest(i) /\ OwnRequest(i)

\* C16, as the code has it: a call of setSubscription without descriptor puts
\* exactly one 'unsubscribe' request on the socket, a call with a descriptor
\* exactly one 'subscribe' request when the socket is connected and none
\* when it is not, and no two calls share a request.
C16_OneRequestPerConnectedCall ==
  \A i \in SetSubscriptionCalls :
    /\ HasRequest(i) <=> (flows[i].op = "unsubscribe" \/ flows[i].online)
    /\ OwnRequest(i)

\* setSubscription has been called twice with a descriptor, the second time
\* before the first request was answered, and once without connection.
C16_Witness ==
  /\ \E i, j \in SetSubscriptionCalls :
       /\ i < j
       /\ flows[i].op = "subscribe" /\ flows[j].op = "subscribe"
       /\ flows[i].req # 0 /\ flows[j].req # 0
       /\ ~flows[j].quiet
  /\ \E i \in SetSubscriptionCalls : flows[i].op = "subscribe" /\ ~flows[i].online

\* The latest call of setSubscription.
LastSetSubscription ==
  CHOOSE i \in SetSubscriptionCalls : \A j \in SetSubscriptionCalls : j <= i

\* A step that is a call of setSubscription of the shoots.
IsSetSubscription ==
  /\ Len(flows') = Len(flows) + 1
  /\ flows'[Len(flows')].topic = "shoots"
  /\ flows'[Len(flows')].origin = "setSubscription"

\* C17: the descriptor that setSubscription stores carries unhealthy = true
\* iff the current namespace is '_all' and the issues-only switch is on, and
\* the current namespace as its namespace iff that is not '_all'; a call
\* without descriptor clears the stored subscription.
C17_StoredDescriptor ==
  /\ [][IsSetSubscription =>
         IF flows'[Len(flows')].op = "subscribe"
         THEN /\ subscription'.set
              /\ subscription'.filter.unhealthy = "true"
                   <=> (rootNamespace' = "_all" /\ onlyShootsWithIssues')
              /\ subscription'.filter.namespace = rootNamespace'
                   <=> rootNamespace' # "_all"
         ELSE ~subscription'.set]_vars
  /\ [](SetSubscriptionCalls # {} =>
          (subscription.set <=> flows[LastSetSubscription].op = "subscribe"))

\* A descriptor of the unhealthy shoots of all namespaces is stored, and a
\* call without descriptor came before it.
C17_Witness ==
  /\ subscription.set
  /\ subscription.filter.unhealthy = "true"
  /\ \E i \in SetSubscriptionCalls : flows[i].op = "unsubscribe"

(***************************************************************************)
(* Claims: emit                                                            *)
(***************************************************************************)
\* The acknowledgement of a call arrived before its timer fired.
AckedInTime(c) == c.ackAt # Undefined /\ c.outcome # "ETIMEDOUT"

\* C11: every subscribe/unsubscribe request is sent once and its promise is
\* settled at most once, and always once the 15 seconds are over: resolved
\* only on an acknowledgement without error, rejected with the server's error
\* only on an acknowledgement with an error, rejected with the timeout error
\* only when no acknowledgement came within 15 seconds; an acknowledgement
\* after the timeout changes nothing.
C11_SettlesOnce ==
  \A i \in 1..Len(calls) :
    LET c == calls[i]
    IN  /\ c.sent = 1
        /\ c.settles <= 1
        /\ c.settles = 1 <=> c.outcome # "pending"
        /\ now > c.sentAt + AckTimeout => c.settles = 1
        /\ c.outcome = "resolved" =>
             c.ackAt # Undefined /\ ~c.ackError /\ c.ackAt <= c.sentAt + AckTimeout
        /\ c.outcome = "rejected" =>
             c.ackAt # Undefined /\ c.ackError /\ c.ackAt <= c.sentAt + AckTimeout
        /\ c.outcome = "ETIMEDOUT" =>
             c.ackAt = Undefined \/ c.ackAt >= c.sentAt + AckTimeout
        /\ c.outcome = "pending" => c.ackAt = Undefined /\ c.timeoutId # Undefined

\* A call has timed out and its acknowledgement has arrived after that.
C11_Witness ==
  \E i \in 1..Len(calls) :
    /\ calls[i].outcome = "ETIMEDOUT"
    /\ calls[i].ackAt # Undefined
    /\ calls[i].settles = 1

(***************************************************************************)
(* Claims: tickets and comments                                            *)
(***************************************************************************)
\* Where the list holds the item of a key, 0 if it holds none.
PlaceOf(items, path, key) ==
  IF \E i \in 1..Len(items) : items[i][path] = key
  THEN CHOOSE i \in 1..Len(items) : items[i][path] = key
  ELSE 0

\* The list after an ADDED/MODIFIED event for an item it holds at place i:
\* the item replaced by the event's object if the object is not older, the
\* list as it was otherwise.
LastWriteWins(items, i, object) ==
  IF object.updated_at >= items[i].updated_at
  THEN [items EXCEPT ![i] = object]
  ELSE items

IsPut(e) == e.type \in {"ADDED", "MODIFIED"}

\* C22: an ADDED/MODIFIED event for a ticket (by number) or a comment (by id
\* within its ticket number) that is stored replaces the stored item if and
\* only if the event's updated_at is greater than or equal to the stored
\* one's, and leaves the collection as it was otherwise, in every order of
\* delivery: for the handler of single events of both modules and for the
\* tickets mutation over a batch.
C22_LastWriteWinsByUpdatedAt ==
  [][ /\ \A e \in TicketEvents :
           LET i == PlaceOf(ticketsAll, "number", e.object.number)
           IN  (IsPut(e) /\ i # 0) =>
                 /\ TicketsHandleEvent(e) =>
                      ticketsAll' = LastWriteWins(ticketsAll, i, e.object)
                 /\ TicketsCommitHandleEvents(<<e>>) =>
                      ticketsAll' = LastWriteWins(ticketsAll, i, e.object)
      /\ \A e \in CommentEvents :
           LET items == Group(commentsAll, e.object.number)
               i == PlaceOf(items, "id", e.object.id)
           IN  (IsPut(e) /\ i # 0 /\ CommentsHandleEvent(e)) =>
                 /\ DOMAIN commentsAll' = DOMAIN commentsAll
                 /\ \A number \in DOMAIN commentsAll :
                      commentsAll'[number] =
                        IF number = e.object.number
                        THEN LastWriteWins(items, i, e.object)
                        ELSE commentsAll[number]
    ]_vars

\* A stored ticket and a stored comment were replaced by a later edit: each
\* stands behind an item that is older than it, where no insert puts it.
C22_Witness ==
  /\ \E i \in 2..Len(ticketsAll) :
       /\ ticketsAll[i].body = "y"
       /\ ticketsAll[i].updated_at > ticketsAll[i - 1].updated_at
  /\ \E number \in DOMAIN commentsAll :
       \E i \in 2..Len(commentsAll[number]) :
         /\ commentsAll[number][i].body = "y"
         /\ commentsAll[number][i].updated_at > commentsAll[number][i - 1].updated_at

Descending(items) ==
  \A i \in 1..(Len(items) - 1) : items[i].updated_at >= items[i + 1].updated_at

\* C23: after every event applied to the tickets or to the comments of a
\* ticket, an insert as well as a replacement, the list of tickets and every
\* group of comments is in descending order of updated_at.
C23_SortedByUpdatedAtDescending ==
  /\ Descending(ticketsAll)
  /\ \A number \in DOMAIN commentsAll : Descending(commentsAll[number])

\* The collection after every event of a batch is applied in order.
RECURSIVE EveryTicketEvent(_, _)
EveryTicketEvent(all, evs) ==
  IF evs = <<>> THEN all
  ELSE EveryTicketEvent(ticketsHandleOne(all, Head(evs)), Tail(evs))

RECURSIVE EveryCommentEvent(_, _)
EveryCommentEvent(all, evs) ==
  IF evs = <<>> THEN all
  ELSE EveryCommentEvent(commentsHandleOne(all, Head(evs)), Tail(evs))

\* C30: a batch of events handed to handleEvents of the tickets or of the
\* comments module leaves the module's collection as applying every event of
\* the batch in order leaves it; no event is skipped because of an earlier
\* event of the batch.
C30_EveryEventOfBatchApplied ==
  [][ /\ \A batch \in TicketBatches :
           TicketsHandleEvents(batch) =>
             ticketsAll' = EveryTicketEvent(ticketsAll, batch)
      /\ \A batch \in CommentBatches :
           CommentsHandleEvents(batch) =>
             commentsAll' = EveryCommentEvent(commentsAll, batch)
    ]_vars

(***************************************************************************)
(* Claims: sorted and filtered key sequences of the list-state engine      *)
(***************************************************************************)
\* The object satisfies the search and the filters of the list view.
SatisfiesView(item) ==
  /\ searchValue # NoSearchValue => TokenMatches(item)
  /\ PassesFilters(item)

\* C25: whenever a pass over events has completed, the filtered key sequence
\* holds exactly the keys of the sorted key sequence whose current objects
\* satisfy the active search and filters, also after a MODIFIED event that
\* changes what the search reads without requiring a re-sort.
C25_FilteredAreTheSatisfyingKeys ==
  FilteredKeySet =
    { sortedShoots[i] : i \in
        { j \in 1..Len(sortedShoots) :
            /\ sortedShoots[j] \in Keys(shoots)
            /\ SatisfiesView(getItemByKey(shoots, sortedShoots[j])) } }

\* Whether the sequence part is the sequence whole with some of its members
\* left out.
RECURSIVE IsSubsequence(_, _)
IsSubsequence(part, whole) ==
  IF part = <<>> THEN TRUE
  ELSE IF whole = <<>> THEN FALSE
  ELSE IF Head(part) = Head(whole) THEN IsSubsequence(Tail(part), Tail(whole))
  ELSE IsSubsequence(part, Tail(whole))

\* C26: in every reachable state of the list engine, after any sequence of
\* events, loads, clears and changes of the sort, the search and the filters,
\* the Filtered Key Sequence is the Sorted Key Sequence with some of its keys
\* left out, the others in their order.
C26_FilteredIsSubsequenceOfSorted == IsSubsequence(filteredShoots, sortedShoots)

\* A loaded list with an event applied, sorted downwards, searched and
\* filtered: two of its three keys are left, not in the order of the
\* collection.
C26_Witness ==
  /\ Len(sortedShoots) = 3
  /\ Len(filteredShoots) = 2
  /\ filteredShoots # filter(getSortedKeys(shoots, NoSortParams), Keys(shoots))
  /\ lastPass.changed
  /\ rootNamespace = "_all"
  /\ subscription.set
  /\ flows # <<>>
  /\ \A i \in 1..Len(flows) : flows[i].pc = "done"

(***************************************************************************)
(* Claims: the load of the list                                            *)
(***************************************************************************)
\* Since the load began (lastType is reset by its CLEAR_ALL) events came for
\* this key only, and the last of them was a DELETED that changed the
\* collection: the key was stored and the event has deleted it.
DeletedWhileLoading(key) ==
  /\ lastType[key] = "DELETED"
  /\ \A other \in DOMAIN lastType \ {key} : lastType[other] = "none"
  /\ lastPass.changed
  /\ key \notin Keys(shoots)

\* Since the load began an ADDED or MODIFIED event was the last event of
\* this key, which is stored.
PutWhileLoading(key) ==
  /\ lastType[key] \in {"ADDED", "MODIFIED"}
  /\ key \in Keys(shoots)

\* The commit of fetched items undoes what the events of the load did to the
\* key.
Undone(key) ==
  \/ /\ DeletedWhileLoading(key)
     /\ key \in Keys(shoots')
  \/ /\ PutWhileLoading(key)
     /\ \/ key \notin Keys(shoots')
        \/ getItemByKey(shoots', key).resourceVersion
             < getItemByKey(shoots, key).resourceVersion

\* C27: an event applied to the collection while the one load of the list
\* is in flight (before its items are committed, or between two of its
\* chunks) is not undone when the fetched items are committed: a key the
\* event deleted is not stored again, a key it added or updated is neither
\* dropped nor taken back to an older resourceVersion.
C27_EventsOfTheLoadAreNotUndone ==
  [][ (/\ Len(flows) = 1
       /\ \E answer \in Answers(flows[1]) : Received(1, answer[1], answer[2]))
      => \A key \in DOMAIN lastType : ~Undone(key) ]_vars

\* Whether an object is one a subscription asks the API for: a shoot of its
\* namespace, and the one of its name when it has both.
WithinScope(object, f) ==
  f.namespace # Null =>
    /\ object.namespace = f.namespace
    /\ f.name # Null => object.name = f.name

\* C28: when the subscription is replaced while the fetch of the previous
\* one is in flight, the late answer to the previous fetch is never
\* committed: once every call has ended, the last of them the load of the
\* subscription in force, the collection holds only objects that
\* subscription asks for. (The requests have reached the router one after
\* the other was answered.)
C28_OnlyObjectsOfTheSubscription ==
  (/\ subscription.set
   /\ \A i \in 1..Len(reqs) : reqs[i].solo
   /\ flows # <<>>
   /\ \A i \in 1..Len(flows) : flows[i].pc = "done"
   /\ flows[Len(flows)].op = "subscribe"
   /\ flows[Len(flows)].filter = subscription.filter) =>
     \A i \in 1..Len(shoots) : WithinScope(shoots[i], subscription.filter)

(***************************************************************************)
(* Claims: a batch of events and its events one at a time                  *)
(***************************************************************************)
\* The collection after handleEvents([e])
HandleOne(items, e) ==
  IF KeepsEvent(items, e, IssuesOnly) THEN SetOrDelete(items, e) ELSE items

\* The collection after handleEvents([e]) for every event e of the batch, in
\* the order of the batch
RECURSIVE OneAtATime(_, _)
OneAtATime(items, batch) ==
  IF batch = <<>> THEN items
  ELSE OneAtATime(HandleOne(items, Head(batch)), Tail(batch))

\* The batches of the events of shoot a: created, updated to a newer
\* resourceVersion, deleted, in any order.
BatchesOfOneKey ==
  {batch \in Batches : \A i \in 1..Len(batch) : getKey(batch[i].object) = "foo/a"}

\* C29: handleEvents with a batch of events leaves the collection that
\* handleEvents with each of its events, one at a time and in the order of
\* the batch, leaves, also when the batch has several events of one key
\* (here: all its events are of one key).
C29_BatchAsOneAtATime ==
  [][ \A batch \in BatchesOfOneKey :
        HandleEvents(batch) => shoots' = OneAtATime(shoots, batch) ]_vars

(***************************************************************************)
(* Claims: authorization of the rooms, on every topic                      *)
(***************************************************************************)
\* The rooms scoped to the namespace of a project: the shoots rooms of the
\* namespace and the comments rooms of the project.
IsRoomOfProject(room, project) ==
  \/ StartsWith(room, "subs://shoots/namespace/" \o project.namespace \o "/")
  \/ StartsWith(room, "subs://comments/project/" \o project.name \o "/")

\* C31: after any sequence of subscribe and unsubscribe requests of a user
\* that is no admin, on any topic, the socket is in no room scoped to a
\* namespace of whose project the user is not a member.
C31_NoRoomOfForeignNamespace ==
  ~user.isAdmin =>
     \A room \in rooms : \A project \in projectList :
        IsRoomOfProject(room, project) => user.id \in project.members

(***************************************************************************)
(* Claims: the re-sort flag and the latency of the queue engine            *)
(***************************************************************************)
\* C37: the re-sort flag is false whenever no pass is running: a pass that
\* re-sorts resets it, so a pass over nothing but repeated deliveries does
\* not re-sort.
C37_SortRequiredFalseBetweenPasses ==
  /\ sortRequired = FALSE
  /\ (passes # <<>> /\ lastPass.duplicate) => ~passes[Len(passes)].sorted

\* When the queued event i arrived: the queue holds the events handed over
\* last.
ArrivedAt(i) == burst.times[Len(burst.times) - Len(events) + i]

\* No queued event has waited longer than the throttle window, and a timer
\* that will run the pass is due before the oldest of them has.
AppliedWithinTheWindow ==
  events # <<>> =>
    /\ \A i \in 1..Len(events) : now - ArrivedAt(i) <= ThrottleWait
    /\ throttle.lastArgs
    /\ throttle.timerId # Undefined
    /\ throttle.timerId <= ArrivedAt(1) + ThrottleWait

\* A step takes one event into the queue behind the others, or runs the
\* pass over the whole queue (with the event that has just come behind it),
\* in its order, and empties it.
AppliedOnceInOrder ==
  \/ events' = events /\ shoots' = shoots
  \/ \E e \in LatencyEvents : events' = Append(events, e) /\ shoots' = shoots
  \/ /\ events' = <<>>
     /\ \E q \in {events} \cup {Append(events, e) : e \in LatencyEvents} :
          shoots' = ApplyEvents(q, ListState(shoots, sortRequired), sortParams,
                                IssuesOnly).shoots

\* C32: every event passed to handleEvent while the subscription stays in
\* force is handled by a pass over the queue, not later than one throttle
\* window after it arrived, once, and in the order of arrival.
C32_AppliedWithinOneWindow ==
  /\ []AppliedWithinTheWindow
  /\ [][AppliedOnceInOrder]_vars
  /\ (events # <<>>) ~> (events = <<>>)

\* An event has waited the whole window for the pass that is due now.
C32_Witness ==
  /\ events # <<>>
  /\ now - ArrivedAt(1) = ThrottleWait
  /\ passes # <<>>

(***************************************************************************)
(* Claims: the order of the last operations and of the readiness           *)
(***************************************************************************)
HasOperationInProgress(item) ==
  /\ item.lastOperation.progress \notin {0, 100}
  /\ item.lastOperation.state # "Failed"

HasFailure(item) == item.lastOperation.state = "Failed" \/ item.lastErrors # <<>>

HasUserFailure(item) == isUserError(errorCodesFromArray(item.lastErrors))

\* The bucket of an object, by the letters of the claim.
BucketOf(item) ==
  CASE isReconciliationDeactivated(item) /\ HasFailure(item) -> "a"
    [] isReconciliationDeactivated(item) /\ ~HasFailure(item) -> "g"
    [] OTHER ->
       CASE HasUserFailure(item) /\ ~HasOperationInProgress(item) -> "c"
         [] HasUserFailure(item) /\ HasOperationInProgress(item) -> "e"
         [] OTHER ->
            CASE HasFailure(item) /\ ~HasOperationInProgress(item) -> "b"
              [] HasFailure(item) /\ HasOperationInProgress(item) -> "d"
              [] OTHER ->
                 CASE HasOperationInProgress(item) -> "f"
                   [] OTHER -> IF isShootStatusHibernated(item) THEN "h" ELSE "i"

\* The place of a bucket in a precedence of the buckets.
PlaceIn(precedence, bucket) ==
  CHOOSE i \in 1..Len(precedence) : precedence[i] = bucket

\* x stands before y by the precedence, then, in a bucket of operations in
\* progress, by the smaller progress, then by the name.
OrderedBy(precedence, x, y) ==
  LET px == PlaceIn(precedence, BucketOf(x))
      py == PlaceIn(precedence, BucketOf(y))
  IN  \/ px < py
      \/ /\ px = py
         /\ \/ /\ HasOperationInProgress(x)
               /\ x.lastOperation.progress < y.lastOperation.progress
            \/ /\ HasOperationInProgress(x) => x.lastOperation.progress = y.lastOperation.progress
               /\ NameRank(x.name) < NameRank(y.name)

\* The Sorted Key Sequence, sorted upwards by lastOperation, follows the
\* precedence.
SortedByPrecedence(precedence) ==
  (sortParams = [sortBy |-> "lastOperation", sortDesc |-> FALSE]) =>
     /\ Len(sortedShoots) = Len(shoots)
     /\ \A i, j \in 1..Len(sortedShoots) :
          i < j => OrderedBy(precedence, getItemByKey(shoots, sortedShoots[i]),
                             getItemByKey(shoots, sortedShoots[j]))

\* C33 as stated: sorting upwards by lastOperation orders the objects by the
\* precedence (a) reconciliation deactivated with failure, (b) failure, not
\* in progress, (c) failure of the user, not in progress, (d) failure, in
\* progress, (e) failure of the user, in progress, (f) any other operation in
\* progress, (g) reconciliation deactivated without failure, (h) hibernated,
\* (i) everything else; in progress by the smaller progress; then by name.
C33_OrderOfTheClaim ==
  SortedByPrecedence(<<"a", "b", "c", "d", "e", "f", "g", "h", "i">>)

\* The object has a condition whose status is not 'True', and t is the
\* earliest lastTransitionTime of such a condition.
FailsSince(item, t) ==
  /\ t \in FailedSince(item)
  /\ \A u \in FailedSince(item) : t <= u

\* x may stand before y in a list sorted by readiness.
ReadinessOrdered(x, y, sortDesc) ==
  IF FailedSince(x) = {}
  THEN FailedSince(y) = {} /\ NameRank(x.name) < NameRank(y.name)
  ELSE FailedSince(y) # {} =>
         \E t \in FailedSince(x) : \E u \in FailedSince(y) :
            /\ FailsSince(x, t) /\ FailsSince(y, u)
            /\ IF t = u THEN NameRank(x.name) < NameRank(y.name)
               ELSE IF sortDesc THEN t > u ELSE t < u

\* C34: sorting by readiness orders the objects by the earliest
\* lastTransitionTime of their conditions that are not 'True', upwards or
\* downwards as the flag says; an object with no such condition stands after
\* all objects that have one, in both directions; objects of equal readiness
\* stand in the order of their names, upwards, in both directions.
C34_ReadinessOrder ==
  sortParams.sortBy = "readiness" =>
     /\ Len(sortedShoots) = Len(shoots)
     /\ \A i, j \in 1..Len(sortedShoots) :
          i < j => ReadinessOrdered(getItemByKey(shoots, sortedShoots[i]),
                                    getItemByKey(shoots, sortedShoots[j]),
                                    sortParams.sortDesc)

\* A list sorted downwards by readiness: two objects that fail since the
\* same time, in the order of their names, and behind them one that does not
\* fail.
C34_Witness ==
  /\ sortParams = [sortBy |-> "readiness", sortDesc |-> TRUE]
  /\ sortedShoots = <<"foo/b", "foo/d", "foo/a">>

(***************************************************************************)
(* Claims: the filters of the issues-only view                             *)
(***************************************************************************)
\* The members of a sequence.
Range(seq) == {seq[i] : i \in 1..Len(seq)}

\* The ticket carries a label of the configured list.
CarriesHideLabel(ticket) ==
  \E i \in 1..Len(ticket) : ticket[i] \in hideClustersWithLabels

\* The issues-only view of all namespaces with the hide-ticket-label filter
\* on, the other filters off and no search.
OnlyHideTicketsWithLabel ==
  /\ rootNamespace = "_all" /\ onlyShootsWithIssues
  /\ searchValue = NoSearchValue
  /\ shootListFilters = [NoFilters EXCEPT !.set = TRUE, !.hideTicketsWithLabel = TRUE]

\* C35 as stated: with the hide-ticket-label filter on in the issues-only
\* view of all namespaces, an object is left out of the Filtered Key
\* Sequence when one of its tickets carries a label of the configured list,
\* and an object without tickets is never left out by this filter.
C35_HiddenByAnyLabelledTicket ==
  OnlyHideTicketsWithLabel =>
    \A i \in 1..Len(shoots) :
       getKey(shoots[i]) \in Range(filteredShoots)
         <=> ~\E t \in 1..Len(shoots[i].tickets) : CarriesHideLabel(shoots[i].tickets[t])

\* C35 amended: the object is left out when it has tickets and every one of
\* them carries a label of the configured list; an object without tickets,
\* or with a ticket that carries no such label, is not left out by this
\* filter.
C35_HiddenByAllTicketsLabelled ==
  OnlyHideTicketsWithLabel =>
    \A i \in 1..Len(shoots) :
       getKey(shoots[i]) \in Range(filteredShoots)
         <=> \/ shoots[i].tickets = <<>>
             \/ \E t \in 1..Len(shoots[i].tickets) : ~CarriesHideLabel(shoots[i].tickets[t])

\* The filter is on over a list with a shoot without tickets, one whose only
\* ticket is to hide, and one with a ticket to hide and another ticket.
C35_Witness ==
  /\ OnlyHideTicketsWithLabel
  /\ Keys(shoots) = {"foo/prod-1", "foo/b", "foo/c"}
  /\ Range(filteredShoots) = {"foo/prod-1", "foo/c"}

\* A filter that is switched on.
\* C36: the filters (hide progressing, hide user issues, hide deactivated
\* reconciliation, hide by ticket label) change the Filtered Key Sequence
\* only in the issues-only view of all namespaces: in every other scope the
\* sequence is the same whatever the values of the filters, the sorted keys
\* that pass the search.
C36_SameWhateverTheFilters ==
  ~IssuesOnly =>
     filteredShoots =
       filter(sortedShoots,
              {getKey(shoots[i]) : i \in {k \in 1..Len(shoots) :
                 searchValue # NoSearchValue => MatchesSearch(shoots[k], searchValue)}})

(***************************************************************************)
(* Claims: the subscriptions of a socket that connects                     *)
(***************************************************************************)
\* The 'subscribe' requests of a topic that a step has sent.
SentSubscribes(topic) ==
  {k \in (Len(reqs) + 1)..Len(reqs') :
     reqs'[k].op = "subscribe" /\ reqs'[k].topic = topic}

\* C38: when the socket connects or reconnects, exactly one subscribe
\* request with the stored subscription is sent for each of the topics
\* shoots, tickets and comments that has a stored subscription, and none for
\* a topic that has none.
C38_OneSubscribePerStoredTopic ==
  [][(~connected /\ connected') =>
       \A topic \in Topics :
         IF SubscriptionOf(topic).set
         THEN /\ Cardinality(SentSubscribes(topic)) = 1
              /\ \A k \in SentSubscribes(topic) :
                   Filter(reqs'[k].namespace, reqs'[k].name, reqs'[k].unhealthy)
                     = SubscriptionOf(topic).filter
         ELSE SentSubscribes(topic) = {}]_vars

\* The socket has connected with a subscription stored for the shoots and
\* for the comments and none for the tickets: two requests are on their way.
C38_Witness ==
  /\ connected
  /\ subscription.set /\ topicSubscription.comments.set /\ ~topicSubscription.tickets.set
  /\ Len(flows) = 2
  /\ \A i \in 1..2 : flows[i].origin = "connected" /\ flows[i].req = i
  /\ reqs[1].topic = "shoots" /\ reqs[2].topic = "comments"
  /\ reqs[2].namespace = "foo" /\ reqs[2].name = "a"

(***************************************************************************)
(* Claims: the rooms an unsubscribe leaves                                 *)
(***************************************************************************)
\* A room of a topic: its name starts with subs://{topic}.
IsRoomOfTopic(room, topic) ==
  \E rest \in {SubSeq(room, Len("subs://" \o topic) + 1, Len(room))} :
    room = "subs://" \o topic \o rest

\* The rooms without those of a topic.
WithoutTopic(roomSet, topic) == {room \in roomSet : ~IsRoomOfTopic(room, topic)}

\* An unsubscribe that met no other request: it found all answered, none has
\* come after it, and it has been answered.
IsUnsubscribeAlone(i) ==
  /\ i = Len(reqs)
  /\ reqs[i].solo
  /\ reqs[i].op = "unsubscribe"
  /\ reqs[i].pc = "acked"

\* An unsubscribe that is answered leaves the socket in the rooms it was in
\* without those of the topic.
UnsubscribedFromTopic ==
  \A i \in 1..Len(reqs) :
    IsUnsubscribeAlone(i) => rooms = WithoutTopic(reqs[i].before, reqs[i].topic)

\* A step of an unsubscribe, whatever other requests are on their way: it
\* sets out to leave the rooms of its topic the socket is in, each leave
\* takes one of these rooms and no other from the socket, if another request
\* has not taken it before, and its answer takes none.
UnsubscribeStep ==
  /\ \A k \in (Len(reqs) + 1)..Len(reqs') :
       reqs'[k].op = "unsubscribe" =>
         /\ reqs'[k].leaving = rooms \ WithoutTopic(rooms, reqs'[k].topic)
         /\ rooms' = rooms
  /\ \A i \in 1..Len(reqs) :
       (reqs[i].op = "unsubscribe" /\ reqs'[i] # reqs[i]) =>
         /\ rooms' = rooms \ (reqs[i].leaving \ reqs'[i].leaving)
         /\ \A room \in rooms \ rooms' :
              room # SocketId /\ IsRoomOfTopic(room, reqs[i].topic)
         /\ reqs'[i].pc = "acked" => reqs[i].leaving = {} /\ reqs[i].error = Null

\* C39: an unsubscribe request for a topic takes the socket out of exactly
\* the rooms of that topic, those whose names start with subs://{topic}, and
\* leaves the socket in its own-id room and in its rooms of the other topics.
C39_UnsubscribeLeavesExactlyTopicRooms ==
  /\ []UnsubscribedFromTopic
  /\ [][UnsubscribeStep]_vars

\* A socket in the rooms of the three topics has unsubscribed from the
\* comments: it is in its own-id room, in the shoots room and in the tickets
\* room.
C39_Witness ==
  /\ Len(reqs) = 1
  /\ IsUnsubscribeAlone(1)
  /\ reqs[1].topic = "comments"
  /\ reqs[1].before = {SocketId} \cup JoinedRooms
  /\ rooms = {SocketId, "subs://shoots/namespace/foo/all-clusters", "subs://tickets"}

(***************************************************************************)
(* Claims: the channel of the shoot events                                 *)
(***************************************************************************)
\* C40: every shoot event the dispatcher emits to a room is handed, with its
\* {type, object} payload, to the shoots handleEvent action of the client
\* whose socket is in that room: the channel of the emit is one the client
\* listens on, so no packet is dropped.
C40_EmittedEventsAreHanded ==
  /\ \A i \in 1..Len(dispatched) : \A e \in dispatched[i].emits :
       e.room \in rooms => e.channel \in EventListeners
  /\ \A k \in 1..Len(wire) : wire[k].pc # "dropped"
====
